---------------------------- MODULE Spec2Model ----------------------------
(***************************************************************************)
(* Verification model of gptools: the set-partition generator of          *)
(* gptools/utils.py and the hyperparameter container / kernel combinators *)
(* of gptools/kernel/core.py.                                              *)
(*                                                                         *)
(* numpy arrays that the source indexes (a, b, the restricted-growth       *)
(* strings, set_) are functions over 0..n-1, so indices read as in the    *)
(* source; Python lists are sequences.                                     *)
(***************************************************************************)
EXTENDS Integers, Sequences, FiniteSets, TLC

\* ------------------------------------------------------------------ bounds
\* Largest set size given to the partition generator.
MaxN == 4
\* Elements of set_ are drawn from 0..MaxElem (repeated values allowed).
MaxElem == 2

\* ------------------------------------------------------------- variables
VARIABLES
    \* generate_set_partitions / generate_set_partition_strings
    set_,        \* the input set, an array over 0..n-1
    a,           \* current restricted-growth string
    b,           \* b[i]: largest label usable at position i
    j,           \* the index found in step 4
    strings,     \* the list `partitions` of generate_set_partition_strings
    partitions,  \* the list `partitions` of generate_set_partitions
    pc,          \* position in the generator
    \* kernels (gptools/kernel/core.py)
    scenario,    \* which family of client programs is explored
    kernels,     \* the kernel objects, in order of construction; a reference is an index
    last,        \* the last call made by the client and how it ended
    delegated,   \* the set_hyperparams calls a combinator made during the last call
    \* calls that compute a value (evaluate, unique_rows, incomplete_bell_poly)
    call,        \* the call being made: its name and arguments
    result,      \* what the call returned or raised, and what it did on the way
    \* ArbitraryKernel.__call__ followed statement by statement
    pools,       \* the multiprocessing.Pool objects created so far, in order of creation
    frame        \* the locals of the running ArbitraryKernel.__call__, or where the client is

partVars == <<set_, a, b, j, strings, partitions, pc>>
kernelVars == <<scenario, kernels, last, delegated>>
callVars == <<call, result>>
poolVars == <<pools, frame>>
vars == <<set_, a, b, j, strings, partitions, pc, scenario, kernels, last, delegated,
          call, result, pools, frame>>

\* ------------------------------------------------------- array helpers
None == "None"

Range(f) == {f[i] : i \in DOMAIN f}

Zeros(n) == [i \in 0..(n - 1) |-> 0]
Ones(n) == [i \in 0..(n - 1) |-> 1]

Max(S) == CHOOSE x \in S : \A y \in S : y <= x
Min(S) == CHOOSE x \in S : \A y \in S : x <= y

RECURSIVE SortedSeq(_)
\* The elements of a finite set of integers in increasing order.
SortedSeq(S) == IF S = {} THEN <<>> ELSE <<Min(S)>> \o SortedSeq(S \ {Min(S)})

\* All arrays of length 0..maxLen over the set S.
Arrays(S, maxLen) == UNION {[0..(m - 1) -> S] : m \in 0..maxLen}

\* ------------------------------------- generate_set_partition_strings
\* Mutant: the empty set given its one trivial (empty) partition.
EdgeCaseStrings_TrivialPartition(n) == IF n = 0 THEN <<Zeros(0)>> ELSE <<Zeros(1)>>

\* The two edge cases, answered without running the algorithm.
EdgeCaseStrings(n) == IF n = 0 THEN <<>> ELSE <<Zeros(1)>>

\* Mutant: index 0 left out of the search.
DifferingIdxs_FromOne(aa, bb, n) == {i \in 1..(n - 2) : aa[i] # bb[i]}

\* Step 4: the indices below the last one where a and b differ.
DifferingIdxs(aa, bb, n) == {i \in 0..(n - 2) : aa[i] # bb[i]}

\* Step 5 and 6 on index jj: a[j] += 1, then b[-1], a[j+1:], b[j+1:-1].
IncreasedA(aa, jj, n) ==
    [i \in 0..(n - 1) |-> IF i = jj THEN aa[jj] + 1 ELSE IF i > jj THEN 0 ELSE aa[i]]

\* Mutant: b[-1] = b[j], the comparison term dropped.
NewBLast_NoCarry(aa, bb, jj) == bb[jj]

\* b[-1] = b[j] + (a[j] == b[j]), read after a[j] has been incremented.
NewBLast(aa, bb, jj) == bb[jj] + (IF aa[jj] + 1 = bb[jj] THEN 1 ELSE 0)

ResetB(aa, bb, jj, n) ==
    [i \in 0..(n - 1) |-> IF i > jj THEN NewBLast(aa, bb, jj) ELSE bb[i]]

\* ------------------------------------------- generate_set_partitions
\* scipy.unique(string): the distinct labels, sorted.
Unique(string) == SortedSeq(Range(string))

\* Mutant: string[string == block_num], the labels instead of the elements.
Block_OfLabels(s, string, block_num) ==
    LET idx == SortedSeq({i \in DOMAIN string : string[i] = block_num})
    IN  [k \in 1..Len(idx) |-> string[idx[k]]]

\* set_[string == block_num]: the elements at the positions carrying the label.
Block(s, string, block_num) ==
    LET idx == SortedSeq({i \in DOMAIN string : string[i] = block_num})
    IN  [k \in 1..Len(idx) |-> s[idx[k]]]

Blocks(s, string) ==
    LET u == Unique(string) IN [k \in 1..Len(u) |-> Block(s, string, u[k])]

\* ----------------------------- the generator as called by other functions
RECURSIVE AlgorithmH(_, _, _, _)
\* The while loop of lines 218-236 from the state (a, b) onwards: the list
\* visited, or an IndexError from step 4.
AlgorithmH(aa, bb, visited, m) ==
    LET seen == Append(visited, aa) IN
    IF aa[m - 1] = bb[m - 1]
    THEN IF DifferingIdxs(aa, bb, m) = {} THEN [err |-> "IndexError"]
         ELSE LET jj == Max(DifferingIdxs(aa, bb, m))
              IN  IF jj = 0 THEN [err |-> None, obj |-> seen]
                  ELSE AlgorithmH(IncreasedA(aa, jj, m), ResetB(aa, bb, jj, m), seen, m)
    ELSE AlgorithmH([i \in 0..(m - 1) |-> IF i = m - 1 THEN aa[i] + 1 ELSE aa[i]], bb, seen, m)

\* generate_set_partition_strings(m)
GenerateSetPartitionStrings(m) ==
    IF m \in {0, 1} THEN [err |-> None, obj |-> EdgeCaseStrings(m)]
    ELSE AlgorithmH(Zeros(m), Ones(m), <<>>, m)

\* generate_set_partitions(s), s an array over 0..len-1
GenerateSetPartitions(s) ==
    LET res == GenerateSetPartitionStrings(Cardinality(DOMAIN s))
    IN  IF res.err # None THEN res
        ELSE [err |-> None,
              obj |-> [p \in 1..Len(res.obj) |-> Blocks(s, res.obj[p])]]

\* --------------------------------------------------------------- actions
n == Cardinality(DOMAIN set_)

InitPartitions ==
    /\ set_ \in Arrays(0..MaxElem, MaxN)
    /\ a = <<>>
    /\ b = <<>>
    /\ j = None
    /\ strings = <<>>
    /\ partitions = None
    /\ pc = "call"
    /\ scenario = None
    /\ kernels = <<>>
    /\ last = [op |-> None, outcome |-> None]
    /\ delegated = <<>>
    /\ call = [op |-> None]
    /\ result = [op |-> None]
    /\ pools = <<>>
    /\ frame = [pc |-> "idle"]

\* Lines 206-210: n == 0 and n == 1 return at once.
EdgeCase ==
    /\ pc = "call"
    /\ n \in {0, 1}
    /\ strings' = EdgeCaseStrings(n)
    /\ pc' = "returned"
    /\ UNCHANGED <<set_, a, b, j, partitions>>
    /\ UNCHANGED kernelVars
    /\ UNCHANGED callVars
    /\ UNCHANGED poolVars

\* Step 1: initialize.
Initialize ==
    /\ pc = "call"
    /\ n >= 2
    /\ a' = Zeros(n)
    /\ b' = Ones(n)
    /\ pc' = "visit"
    /\ UNCHANGED <<set_, j, strings, partitions>>
    /\ UNCHANGED kernelVars
    /\ UNCHANGED callVars
    /\ UNCHANGED poolVars

\* Step 2: visit, and the test a[-1] == b[-1].
Visit ==
    /\ pc = "visit"
    /\ strings' = Append(strings, a)
    /\ pc' = IF a[n - 1] = b[n - 1] THEN "find_j" ELSE "increase_last"
    /\ UNCHANGED <<set_, a, b, j, partitions>>
    /\ UNCHANGED kernelVars
    /\ UNCHANGED callVars
    /\ UNCHANGED poolVars

\* Step 3: increase a_n.
IncreaseLast ==
    /\ pc = "increase_last"
    /\ a' = [a EXCEPT ![n - 1] = a[n - 1] + 1]
    /\ pc' = "visit"
    /\ UNCHANGED <<set_, b, j, strings, partitions>>
    /\ UNCHANGED kernelVars
    /\ UNCHANGED callVars
    /\ UNCHANGED poolVars

\* Step 4: find j; indexing [-1] into an empty result raises IndexError.
FindJ ==
    /\ pc = "find_j"
    /\ IF DifferingIdxs(a, b, n) = {}
       THEN /\ pc' = "IndexError"
            /\ j' = j
       ELSE /\ j' = Max(DifferingIdxs(a, b, n))
            /\ pc' = "increase_j"
    /\ UNCHANGED <<set_, a, b, strings, partitions>>
    /\ UNCHANGED kernelVars
    /\ UNCHANGED callVars
    /\ UNCHANGED poolVars

\* Step 5 (terminate when j == 0) and step 6.
IncreaseJ ==
    /\ pc = "increase_j"
    /\ IF j = 0
       THEN /\ pc' = "returned"
            /\ UNCHANGED <<a, b>>
       ELSE /\ a' = IncreasedA(a, j, n)
            /\ b' = ResetB(a, b, j, n)
            /\ pc' = "visit"
    /\ UNCHANGED <<set_, j, strings, partitions>>
    /\ UNCHANGED kernelVars
    /\ UNCHANGED callVars
    /\ UNCHANGED poolVars

\* generate_set_partitions: the blocks of every string.
MakePartitions ==
    /\ pc = "returned"
    /\ partitions' = [p \in 1..Len(strings) |-> Blocks(set_, strings[p])]
    /\ pc' = "done"
    /\ UNCHANGED <<set_, a, b, j, strings>>
    /\ UNCHANGED kernelVars
    /\ UNCHANGED callVars
    /\ UNCHANGED poolVars

NextPartitions ==
    \/ EdgeCase
    \/ Initialize
    \/ Visit
    \/ IncreaseLast
    \/ FindJ
    \/ IncreaseJ
    \/ MakePartitions

SpecPartitions == InitPartitions /\ [][NextPartitions]_vars

\* generate_set_partition_strings alone, on arrays over {0, 1} (only their
\* length n enters).  It is one sequential loop: a step that can be taken is
\* taken (every step moves pc).
NextStrings ==
    \/ EdgeCase
    \/ Initialize
    \/ Visit
    \/ IncreaseLast
    \/ FindJ
    \/ IncreaseJ

\* As InitPartitions; j, not yet assigned, is -1 here.
InitStrings ==
    /\ set_ \in Arrays(0..1, MaxN)
    /\ a = <<>>
    /\ b = <<>>
    /\ j = -1
    /\ strings = <<>>
    /\ partitions = None
    /\ pc = "call"
    /\ scenario = None
    /\ kernels = <<>>
    /\ last = [op |-> None, outcome |-> None]
    /\ delegated = <<>>
    /\ call = [op |-> None]
    /\ result = [op |-> None]
    /\ pools = <<>>
    /\ frame = [pc |-> "idle"]

SpecStrings == InitStrings /\ [][NextStrings]_vars /\ WF_pc(NextStrings)


\* =================================================== gptools/kernel/core.py
\* Parameter vectors and the lists kept in step with them are sequences:
\* index i of the source is position i + 1 here.

\* ------------------------------------------------------------------ bounds
\* Hyperparameter values are drawn from 0..MaxVal.
MaxVal == 3

\* scipy.finfo('d').max, standing above every value of the model.
DoubleMax == 1000

\* -------------------------------------------------------------- arguments
\* An optional argument: Absent is Python's None default.
Absent == [absent |-> TRUE]
Given(v) == [value |-> v]
IsNone(x) == "absent" \in DOMAIN x
Opt(S) == {Absent} \cup {Given(v) : v \in S}

Lists(S, maxLen) == UNION {[1..m -> S] : m \in 0..maxLen}
Repeat(x, m) == [i \in 1..m |-> x]

BinaryClasses == {"SumKernel", "ProductKernel"}

\* What a call raises, or the object it returns.
Raise(e) == [err |-> e]
Return(obj) == [err |-> None, obj |-> obj]

\* ---------------------------------------------------------- Kernel.__init__
UniformPrior(bnd) == <<"UniformPrior", bnd>>

\* Mutant: fixed_params accepted without initial_params.
FixedWithoutInitial_Accepted(args) == FALSE

\* Lines 127-130: initial_params is None and fixed_params is not.
FixedWithoutInitial(args) == IsNone(args.initial_params) /\ ~IsNone(args.fixed_params)

\* Mutant: the length of param_bounds is not validated.
BoundsLengthBad_Unchecked(args) == FALSE

InitialLengthBad(args) ==
    ~IsNone(args.initial_params) /\ Len(args.initial_params.value) # args.num_params
FixedLengthBad(args) ==
    ~IsNone(args.fixed_params) /\ Len(args.fixed_params.value) # args.num_params
BoundsLengthBad(args) ==
    ~IsNone(args.param_bounds) /\ Len(args.param_bounds.value) # args.num_params
PriorsLengthBad(args) ==
    ~IsNone(args.hyperpriors) /\ Len(args.hyperpriors.value) # args.num_params
IsLogLengthBad(args) ==
    ~IsNone(args.is_log) /\ Len(args.is_log.value) # args.num_params

\* The attributes set by lines 165-170, defaults filled in.
KernelAttributes(cls, args) ==
    LET bounds == IF IsNone(args.param_bounds)
                  THEN Repeat(<<0, DoubleMax>>, args.num_params)
                  ELSE args.param_bounds.value
    IN  [cls |-> cls,
         num_dim |-> args.num_dim,
         num_params |-> args.num_params,
         enforce_bounds |-> args.enforce_bounds,
         params |-> IF IsNone(args.initial_params)
                    THEN Repeat(1, args.num_params)
                    ELSE args.initial_params.value,
         fixed_params |-> IF IsNone(args.fixed_params)
                          THEN Repeat(FALSE, args.num_params)
                          ELSE args.fixed_params.value,
         param_bounds |-> bounds,
         hyperpriors |-> IF IsNone(args.hyperpriors)
                         THEN [i \in 1..Len(bounds) |-> UniformPrior(bounds[i])]
                         ELSE args.hyperpriors.value,
         is_log |-> IF IsNone(args.is_log)
                    THEN Repeat(TRUE, args.num_params)
                    ELSE args.is_log.value,
         k1 |-> 0,
         k2 |-> 0,
         omitted |-> {f \in {"initial_params", "fixed_params", "param_bounds",
                             "hyperpriors", "is_log"} : IsNone(args[f])}]

\* Kernel.__init__: the checks in the order of the source.
KernelInit(cls, args) ==
    IF args.num_params < 0 THEN Raise("ValueError")
    ELSE IF args.num_dim < 1 THEN Raise("ValueError")
    ELSE IF FixedWithoutInitial(args) THEN Raise("GPArgumentError")
    ELSE IF InitialLengthBad(args) THEN Raise("ValueError")
    ELSE IF FixedLengthBad(args) THEN Raise("ValueError")
    ELSE IF BoundsLengthBad(args) THEN Raise("ValueError")
    ELSE IF PriorsLengthBad(args) THEN Raise("ValueError")
    ELSE IF IsLogLengthBad(args) THEN Raise("ValueError")
    ELSE Return(KernelAttributes(cls, args))

\* ------------------------------------------------- ArbitraryKernel.__init__
\* Lines 593-605.  cov_func is the callable handed in: a plain function, a
\* bound method or an instance with __call__ ("kind"), and the number of
\* arguments its def declares, self included ("declared").
\* inspect.getargspec answers for a function and for a bound method (self
\* counted) and raises TypeError for an instance, whose __call__ is then
\* read.  cpu_count is what multiprocessing.cpu_count() answers.
ArbitraryKernelInit(args, cpu_count) ==
    LET num_proc == IF IsNone(args.num_proc) THEN cpu_count ELSE args.num_proc.value
        num_params == IF ~IsNone(args.num_params) THEN args.num_params.value
                      ELSE IF args.cov_func.kind = "instance"
                      THEN args.cov_func.declared - 3
                      ELSE args.cov_func.declared - 2
        res == KernelInit("ArbitraryKernel",
                   [num_dim |-> args.num_dim,
                    num_params |-> num_params,
                    initial_params |-> args.initial_params,
                    fixed_params |-> args.fixed_params,
                    param_bounds |-> args.param_bounds,
                    enforce_bounds |-> args.enforce_bounds,
                    hyperpriors |-> args.hyperpriors,
                    is_log |-> args.is_log])
    IN  IF res.err # None THEN res
        ELSE Return(res.obj @@ [num_proc |-> num_proc, cov_func |-> args.cov_func])

\* ------------------------------------------- free_params, free_param_bounds
\* Positions of the non-fixed parameters, in order.
FreeIdx(k) == SelectSeq([i \in 1..Len(k.fixed_params) |-> i], LAMBDA i : ~k.fixed_params[i])

\* self.params[~self.fixed_params]
FreeParams(k) == [i \in 1..Len(FreeIdx(k)) |-> k.params[FreeIdx(k)[i]]]

\* scipy.asarray(self.param_bounds, dtype=float)[~self.fixed_params]
FreeParamBounds(k) == [i \in 1..Len(FreeIdx(k)) |-> k.param_bounds[FreeIdx(k)[i]]]

\* sum(~fixed_params)
CountFree(fixed) == Cardinality({i \in 1..Len(fixed) : ~fixed[i]})

\* ---------------------------------------------------- Kernel.set_hyperparams
\* Mutant: the two bounds exchanged.
ClampOne_Swapped(new_param, bound) ==
    IF new_param < bound[1] THEN bound[2]
    ELSE IF new_param > bound[2] THEN bound[1]
    ELSE new_param

\* Lines 219-222: one value against its (lower, upper) bound.  The bounds
\* come from a float array, so neither side is ever None.
ClampOne(new_param, bound) ==
    IF new_param < bound[1] THEN bound[1]
    ELSE IF new_param > bound[2] THEN bound[2]
    ELSE new_param

\* Lines 217-222: zip stops at the shorter of new_params and the bounds.
Enforced(k, new_params) ==
    [i \in 1..Len(new_params) |->
        IF k.enforce_bounds /\ i <= Len(FreeParamBounds(k))
        THEN ClampOne(new_params[i], FreeParamBounds(k)[i])
        ELSE new_params[i]]

\* Mutant: values written into the first slots, fixed or not.
Assigned_IgnoringMask(params, fixed, vals) ==
    [i \in 1..Len(params) |-> IF i <= Len(vals) THEN vals[i] ELSE params[i]]

\* params[~fixed] = vals: the i-th value into the i-th non-fixed slot.
Assigned(params, fixed, vals) ==
    [i \in 1..Len(params) |->
        IF fixed[i] THEN params[i]
        ELSE vals[Cardinality({m \in 1..i : ~fixed[m]})]]

\* Mutant: a vector that is too long is accepted, the surplus ignored.
ShapeMatches_AtLeast(k, new_params) == Len(new_params) >= Len(FreeParams(k))

\* new_params.shape == self.free_params.shape
ShapeMatches(k, new_params) == Len(new_params) = Len(FreeParams(k))

\* Kernel.set_hyperparams on object k: the object afterwards, or the error.
KernelSetHyperparams(k, new_params) ==
    IF ShapeMatches(k, new_params)
    THEN Return([k EXCEPT !.params = Assigned(k.params, k.fixed_params, Enforced(k, new_params))])
    ELSE Raise("ValueError")

\* ------------------------------------------------------ BinaryKernel.__init__
\* Mutant: operands of any dimensions accepted.
NumDimDiffer_Ignored(k1, k2) == FALSE

\* Line 329: k1.num_dim != k2.num_dim
NumDimDiffer(k1, k2) == k1.num_dim # k2.num_dim

\* A reference is a position of `kernels`; 0 stands for an operand that is
\* not a Kernel.  Lines 326-341.
BinaryKernelInit(heap, cls, o1, o2) ==
    IF o1 = 0 \/ o2 = 0 THEN Raise("TypeError")
    ELSE IF NumDimDiffer(heap[o1], heap[o2]) THEN Raise("ValueError")
    ELSE LET k1 == heap[o1]
             k2 == heap[o2]
             res == KernelInit(cls,
                        [num_dim |-> k1.num_dim,
                         num_params |-> k1.num_params + k2.num_params,
                         initial_params |-> Given(k1.params \o k2.params),
                         fixed_params |-> Given(k1.fixed_params \o k2.fixed_params),
                         param_bounds |-> Given(k1.param_bounds \o k2.param_bounds),
                         enforce_bounds |-> FALSE,
                         hyperpriors |-> Given(k1.hyperpriors \o k2.hyperpriors),
                         is_log |-> Given(k1.is_log \o k2.is_log)])
         IN  IF res.err # None THEN res
             ELSE Return([res.obj EXCEPT !.k1 = o1, !.k2 = o2])

\* ---------------------------------------------- BinaryKernel.set_hyperparams
\* Mutant: the cut one position too far to the right.
SplitAt_OneTooFar(new_params, num_fixed_k1) ==
    LET cut == Min({num_fixed_k1 + 1, Len(new_params)})
    IN  [cut |-> cut,
         first |-> SubSeq(new_params, 1, cut),
         rest |-> SubSeq(new_params, cut + 1, Len(new_params))]

\* new_params[:num_fixed_k1] / new_params[num_fixed_k1:], Python slicing.
SplitAt(new_params, num_fixed_k1) ==
    LET cut == Min({num_fixed_k1, Len(new_params)})
    IN  [cut |-> cut,
         first |-> SubSeq(new_params, 1, cut),
         rest |-> SubSeq(new_params, cut + 1, Len(new_params))]

RECURSIVE SetHyperparams(_, _, _, _)
\* r.set_hyperparams(new_params) on the heap: the heap afterwards, the error
\* raised (None when it returns) and the calls delegated to children in the
\* order made, each with its caller and the slice new[lo:hi] of the client's
\* vector it was given (off is where new_params starts in that vector).
SetHyperparams(heap, r, new_params, off) ==
    LET k == heap[r] IN
    IF k.cls \in BinaryClasses
    THEN IF ~ShapeMatches(k, new_params)
         THEN [heap |-> heap, err |-> "ValueError", calls |-> <<>>]
         ELSE LET own == [heap EXCEPT ![r].params =
                              Assigned(k.params, k.fixed_params, new_params)]
                  sp == SplitAt(new_params, CountFree(own[k.k1].fixed_params))
                  c1 == [caller |-> r, ref |-> k.k1, lo |-> off, hi |-> off + sp.cut]
                  c2 == [caller |-> r, ref |-> k.k2, lo |-> off + sp.cut,
                         hi |-> off + Len(new_params)]
                  r1 == SetHyperparams(own, k.k1, sp.first, off)
                  r2 == SetHyperparams(r1.heap, k.k2, sp.rest, off + sp.cut)
              IN  IF r1.err # None
                  THEN [heap |-> r1.heap, err |-> r1.err, calls |-> <<c1>> \o r1.calls]
                  ELSE [heap |-> r2.heap, err |-> r2.err,
                        calls |-> <<c1>> \o r1.calls \o <<c2>> \o r2.calls]
    ELSE LET res == KernelSetHyperparams(k, new_params)
         IN  IF res.err # None
             THEN [heap |-> heap, err |-> res.err, calls |-> <<>>]
             ELSE [heap |-> [heap EXCEPT ![r] = res.obj], err |-> None, calls |-> <<>>]

\* ------------------------------------------------------------ client inputs
\* Three families of client programs are explored:
\*   "single": one base kernel, built from any of WideArgs;
\*   "pair":   up to three objects: leaves from LeafArgs, and combinators of
\*             any two operands (a kernel may be used twice, an operand may
\*             be no kernel at all);
\*   "nested": three default leaves a, b, c, then s = a (+|*) b, then
\*             s (+|*) x or x (+|*) s for a leaf x.
\* set_hyperparams is called on any object with any vector at any moment.
Scenarios == {"single", "pair", "nested"}

WideArgs ==
    [num_dim : {0, 1},
     num_params : {-1, 0, 1, 2},
     initial_params : {Absent, Given(<<>>), Given(<<MaxVal>>), Given(<<0, MaxVal>>)},
     fixed_params : Opt(Lists(BOOLEAN, 2) \ {<<TRUE, TRUE>>}),
     param_bounds : {Absent, Given(<<>>), Given(<<(<<1, 2>>)>>),
                     Given(<<(<<0, DoubleMax>>), (<<1, 2>>)>>),
                     Given(<<(<<1, 2>>), (<<0, 1>>)>>)},
     enforce_bounds : BOOLEAN,
     hyperpriors : {Absent, Given(<<"prior">>), Given(<<"prior", "prior">>)},
     is_log : {Absent, Given(<<FALSE>>), Given(<<FALSE, TRUE>>)}]

\* Scenario "single", the numerically-differentiated kernel: the parameter
\* count given or read off the covariance function, the keyword arguments
\* passed on to Kernel.__init__.
WideArbitraryArgs ==
    [cov_func : [kind : {"function"}, declared : 1..4]
                \cup [kind : {"method", "instance"}, declared : {4}],
     num_proc : {Absent, Given(0), Given(2)},
     num_dim : {0, 1},
     num_params : {Absent, Given(1)},
     initial_params : {Absent, Given(<<MaxVal>>), Given(<<0, MaxVal>>)},
     fixed_params : {Absent, Given(<<FALSE, TRUE>>)},
     param_bounds : {Absent, Given(<<(<<0, DoubleMax>>), (<<1, 2>>)>>)},
     enforce_bounds : BOOLEAN,
     hyperpriors : {Absent},
     is_log : {Absent, Given(<<FALSE>>)}]

DefaultArgs(num_dim, num_params) ==
    [num_dim |-> num_dim, num_params |-> num_params, initial_params |-> Absent,
     fixed_params |-> Absent, param_bounds |-> Absent, enforce_bounds |-> FALSE,
     hyperpriors |-> Absent, is_log |-> Absent]

LeafArgs ==
    {DefaultArgs(1, 1),
     DefaultArgs(2, 1),
     DefaultArgs(1, 0),
     [DefaultArgs(1, 2) EXCEPT !.initial_params = Given(<<2, 2>>),
                               !.fixed_params = Given(<<TRUE, FALSE>>),
                               !.param_bounds = Given(<<(<<0, DoubleMax>>), (<<1, 2>>)>>),
                               !.enforce_bounds = TRUE]}

IsBinary(k) == k.cls \in BinaryClasses

\* The arguments the client may pass to Kernel(...) next.
KernelArgs ==
    CASE scenario = "single" -> IF kernels = <<>> THEN WideArgs ELSE {}
      [] scenario = "pair" ->
            IF Len(kernels) < 2 /\ \A r \in 1..Len(kernels) : ~IsBinary(kernels[r])
            THEN LeafArgs ELSE {}
      [] scenario = "nested" -> IF Len(kernels) < 3 THEN {DefaultArgs(1, 1)} ELSE {}

\* The arguments the client may pass to ArbitraryKernel(...) next.
ArbitraryArgs == IF scenario = "single" /\ kernels = <<>> THEN WideArbitraryArgs ELSE {}

\* The operand pairs the client may combine next.
Operands ==
    CASE scenario = "single" -> {}
      [] scenario = "pair" ->
            IF Len(kernels) \in 1..2 THEN (0..Len(kernels)) \X (0..Len(kernels)) ELSE {}
      [] scenario = "nested" ->
            IF Len(kernels) = 3 THEN {<<1, 2>>}
            ELSE IF Len(kernels) = 4 THEN {<<4, 1>>, <<4, 3>>, <<1, 4>>, <<3, 4>>}
            ELSE {}

\* The values the client puts into a vector for set_hyperparams.
NewValues ==
    CASE scenario = "single" -> 0..MaxVal
      [] scenario = "pair" -> {0, MaxVal}
      [] scenario = "nested" -> {1, 2}

\* The vectors of the right length for a kernel with f free parameters.
RightLength(f) == [1..f -> NewValues]

\* Vectors of every other length up to f + 1.
WrongLength(f) == {Repeat(MaxVal, m) : m \in (0..(f + 1)) \ {f}}

\* The vectors the client may hand to set_hyperparams of a kernel with f
\* free parameters.
NewParams(f) == RightLength(f) \cup WrongLength(f)

\* ------------------------------------------------------------------ actions
InitKernels ==
    /\ set_ = <<>>
    /\ a = <<>>
    /\ b = <<>>
    /\ j = None
    /\ strings = <<>>
    /\ partitions = None
    /\ pc = "idle"
    /\ scenario \in Scenarios
    /\ kernels = <<>>
    /\ last = [op |-> "start", outcome |-> None]
    /\ delegated = <<>>
    /\ call = [op |-> None]
    /\ result = [op |-> None]
    /\ pools = <<>>
    /\ frame = [pc |-> "idle"]

\* What a constructor call leaves behind.
Constructed(op, res) ==
    /\ IF res.err = None
       THEN /\ kernels' = Append(kernels, res.obj)
            /\ last' = [op |-> op, outcome |-> "ok"]
       ELSE /\ kernels' = kernels
            /\ last' = [op |-> op, outcome |-> res.err]
    /\ delegated' = <<>>
    /\ UNCHANGED scenario
    /\ UNCHANGED partVars
    /\ UNCHANGED callVars
    /\ UNCHANGED poolVars

\* Kernel(num_dim, num_params, ...)
NewKernel(args) ==
    /\ pc = "idle"
    /\ LET res == KernelInit("Kernel", args) IN Constructed("Kernel", res)

\* ArbitraryKernel(cov_func, num_dim, num_proc, num_params, **kwargs)
NewArbitraryKernel(args, cpu_count) ==
    /\ pc = "idle"
    /\ LET res == ArbitraryKernelInit(args, cpu_count)
       IN  Constructed("ArbitraryKernel", res)

\* SumKernel(o1, o2), o1 + o2, ProductKernel(o1, o2), o1 * o2
NewBinaryKernel(cls, o1, o2) ==
    /\ pc = "idle"
    /\ LET res == BinaryKernelInit(kernels, cls, o1, o2) IN Constructed(cls, res)

\* kernels[r].set_hyperparams(new_params)
SetHyperparamsCall(r, new_params) ==
    /\ pc = "idle"
    /\ LET res == SetHyperparams(kernels, r, new_params, 0)
       IN  /\ kernels' = res.heap
           /\ last' = [op |-> "set_hyperparams",
                       outcome |-> IF res.err = None THEN "ok" ELSE res.err]
           /\ delegated' = res.calls
    /\ UNCHANGED scenario
    /\ UNCHANGED partVars
    /\ UNCHANGED callVars
    /\ UNCHANGED poolVars

NextKernels ==
    \/ \E args \in KernelArgs : NewKernel(args)
    \/ \E args \in ArbitraryArgs, cpu_count \in {1, 4} : NewArbitraryKernel(args, cpu_count)
    \/ \E cls \in BinaryClasses, o \in Operands : NewBinaryKernel(cls, o[1], o[2])
    \/ \E r \in 1..Len(kernels) :
           \E new_params \in NewParams(CountFree(kernels[r].fixed_params)) :
               SetHyperparamsCall(r, new_params)

SpecKernels == InitKernels /\ [][NextKernels]_vars

\* ------------------------------------------------ one constructor call
\* A client that makes one constructor call, with any of the wide argument
\* sets, on an empty heap.
InitConstruct ==
    /\ set_ = <<>>
    /\ a = <<>>
    /\ b = <<>>
    /\ j = None
    /\ strings = <<>>
    /\ partitions = None
    /\ pc = "idle"
    /\ scenario = "single"
    /\ kernels = <<>>
    /\ last = [op |-> "start", outcome |-> None]
    /\ delegated = <<>>
    /\ call \in [op : {"Kernel"}, args : WideArgs, cpu_count : {1}]
            \cup [op : {"ArbitraryKernel"}, args : WideArbitraryArgs, cpu_count : {1, 4}]
    /\ result = [op |-> None]
    /\ pools = <<>>
    /\ frame = [pc |-> "idle"]

ConstructKernel ==
    /\ call.op = "Kernel"
    /\ last.op = "start"
    /\ NewKernel(call.args)

ConstructArbitraryKernel ==
    /\ call.op = "ArbitraryKernel"
    /\ last.op = "start"
    /\ NewArbitraryKernel(call.args, call.cpu_count)

NextConstruct ==
    \/ ConstructKernel
    \/ ConstructArbitraryKernel

SpecConstruct == InitConstruct /\ [][NextConstruct]_vars

\* ======================================== gptools/utils.py: unique_rows
\* Tables (two-dimensional arrays) are sequences of rows, a row a sequence
\* of columns: row m, column d of the source is position m + 1, d + 1.

\* Mutant: rows compared on their last column alone.
RowCmp_LastColumnOnly(r1, r2) ==
    IF r1[Len(r1)] = r2[Len(r2)] THEN 0
    ELSE IF r1[Len(r1)] > r2[Len(r2)] THEN 1 ELSE -1

\* _Row.__cmp__, and the byte order scipy.unique sorts the void view by
\* (the same order for rows of small non-negative integers): 0 for equal
\* rows, else decided by the first column where they differ.
RowCmp(r1, r2) ==
    IF r1 = r2 THEN 0
    ELSE LET first_nonequal_idx == Min({i \in 1..Len(r1) : r1[i] # r2[i]})
         IN  IF r1[first_nonequal_idx] > r2[first_nonequal_idx] THEN 1 ELSE -1

\* sorted(range(len(rows)), key=rows.__getitem__), the stable argsort of
\* scipy.unique likewise: the row numbers in the order of their rows, equal
\* rows in the order of their numbers.
SrtIdx(arr) ==
    LET Before(k, i) == \/ RowCmp(arr[k], arr[i]) = -1
                        \/ RowCmp(arr[k], arr[i]) = 0 /\ k < i
        Rank(i) == 1 + Cardinality({k \in 1..Len(arr) : Before(k, i)})
    IN  [p \in 1..Len(arr) |-> CHOOSE i \in 1..Len(arr) : Rank(i) = p]

\* row_cmp: -1 for the first sorted row, then each sorted row against the
\* one before it (lines 296-298).
RowCmpOfSorted(arr, srt_idx) ==
    [p \in 1..Len(srt_idx) |->
        IF p = 1 THEN -1 ELSE RowCmp(arr[srt_idx[p - 1]], arr[srt_idx[p]])]

\* idx: the row numbers at the transitions (lines 300-301; the indices
\* scipy.unique returns with return_index=True).
UniqueIdx(arr) ==
    LET srt_idx == SrtIdx(arr)
        row_cmp == RowCmpOfSorted(arr, srt_idx)
        transition_idxs == SelectSeq([p \in 1..Len(srt_idx) |-> p],
                                     LAMBDA p : row_cmp[p] # 0)
    IN  [t \in 1..Len(transition_idxs) |-> srt_idx[transition_idxs[t]]]

\* unique_rows(arr) = arr[idx]
UniqueRows(arr) == LET idx == UniqueIdx(arr) IN [t \in 1..Len(idx) |-> arr[idx[t]]]

\* ================================ gptools/utils.py: incomplete_bell_poly
RECURSIVE Binom(_, _)
\* scipy.special.binom(N, m) for integers 0 <= m, 0 <= N: exact in floats for
\* the sizes met here.
Binom(N, m) ==
    IF m = 0 THEN 1
    ELSE IF N = 0 THEN 0
    ELSE Binom(N - 1, m - 1) + Binom(N - 1, m)

\* Mutant: binom(n, m).
Weight_OfN(n_, m) == Binom(n_, m)

\* scipy.special.binom(n - 1, m)
Weight(n_, m) == Binom(n_ - 1, m)

\* x.shape[1], x a table of at least one row.
Cols(x) == Len(x[1])

\* scipy.ones / scipy.zeros(x.shape[0]), no column read.
Filled(x, v) == [err |-> None, obj |-> [r \in 1..Len(x) |-> v], read |-> {}]

RECURSIVE IncompleteBellPoly(_, _, _)
RECURSIVE BellPolyLoop(_, _, _, _, _)
\* Lines 182-183 from m onwards: result, and the columns read so far.
\* x[:, m] is read before the recursive call is made; a column that is not
\* there is an IndexError.
BellPolyLoop(n_, k, x, m, acc) ==
    IF m >= n_ - k + 1 \/ acc.err # None THEN acc
    ELSE IF m >= Cols(x) THEN [err |-> "IndexError", read |-> acc.read \cup {m}]
    ELSE LET sub == IncompleteBellPoly(n_ - (m + 1), k - 1, x)
             read == acc.read \cup {m} \cup sub.read
         IN  BellPolyLoop(n_, k, x, m + 1,
                 IF sub.err # None THEN [err |-> sub.err, read |-> read]
                 ELSE [err |-> None,
                       obj |-> [r \in 1..Len(x) |->
                                   acc.obj[r] + x[r][m + 1] * Weight(n_, m) * sub.obj[r]],
                       read |-> read])

\* incomplete_bell_poly(n, k, x): the array of one value per row of x, or the
\* error, with the columns of x that were read (counted from 0).
IncompleteBellPoly(n_, k, x) ==
    IF n_ = 0 /\ k = 0 THEN Filled(x, 1)
    ELSE IF k = 0 /\ n_ >= 1 THEN Filled(x, 0)
    ELSE IF n_ = 0 /\ k >= 1 THEN Filled(x, 0)
    ELSE BellPolyLoop(n_, k, x, 0, Filled(x, 0))

\* ------------------------------------------------------------ client inputs
\* A table has up to MaxRows rows.
MaxRows == 3

\* The rows of the tables handed to unique_rows: one small non-negative
\* integer, or one followed by 0 or 1.
TableRows(cols) ==
    IF cols = 1 THEN [1..1 -> 0..MaxElem]
    ELSE {<<v, w>> : v \in 0..MaxElem, w \in {0, 1}}

Tables == UNION {[1..rows -> TableRows(cols)] : rows \in 1..MaxRows, cols \in 1..2}

\* Arguments of the polynomial.
XValues == {1, 2}

\* The same row with 1 and 2 exchanged.
Flipped(row) == [c \in 1..Len(row) |-> 3 - row[c]]

\* The batches handed to incomplete_bell_poly: one row of up to MaxN + 1
\* columns, alone or followed by a second row.
Batches ==
    UNION {{<<row>>, <<row, Flipped(row)>>} :
              row \in UNION {[1..cols -> XValues] : cols \in 0..(MaxN + 1)}}

\* ------------------------------------------------------------------ actions
InitUtils ==
    /\ set_ = <<>>
    /\ a = <<>>
    /\ b = <<>>
    /\ j = None
    /\ strings = <<>>
    /\ partitions = None
    /\ pc = "idle"
    /\ scenario = None
    /\ kernels = <<>>
    /\ last = [op |-> "start", outcome |-> None]
    /\ delegated = <<>>
    /\ call = [op |-> None]
    /\ result = [op |-> None]
    /\ pools = <<>>
    /\ frame = [pc |-> "idle"]

\* unique_rows(arr)
UniqueRowsCall(arr) ==
    /\ call.op = None
    /\ call' = [op |-> "unique_rows", arr |-> arr]
    /\ result' = [err |-> None, obj |-> UniqueRows(arr)]
    /\ UNCHANGED partVars
    /\ UNCHANGED kernelVars
    /\ UNCHANGED poolVars

\* unique_rows(unique_rows(arr)): the table returned is handed in again.
UniqueRowsAgain ==
    /\ call.op = "unique_rows"
    /\ call' = [op |-> "unique_rows", arr |-> result.obj]
    /\ result' = [err |-> None, obj |-> UniqueRows(result.obj)]
    /\ UNCHANGED partVars
    /\ UNCHANGED kernelVars
    /\ UNCHANGED poolVars

\* incomplete_bell_poly(n, k, x)
IncompleteBellPolyCall(n_, k, x) ==
    /\ call.op = None
    /\ call' = [op |-> "incomplete_bell_poly", n |-> n_, k |-> k, x |-> x]
    /\ result' = IncompleteBellPoly(n_, k, x)
    /\ UNCHANGED partVars
    /\ UNCHANGED kernelVars
    /\ UNCHANGED poolVars

NextUtils ==
    \/ \E arr \in Tables : UniqueRowsCall(arr)
    \/ UniqueRowsAgain
    \/ \E n_ \in 0..MaxN, k \in 0..MaxN, x \in Batches : IncompleteBellPolyCall(n_, k, x)

SpecUtils == InitUtils /\ [][NextUtils]_vars

\* =================================== gptools/kernel/core.py: evaluation
\* Covariances are kept as terms, not as floats: what was computed from
\* what, in the order the source computes it.

\* ------------------------------------------------------------------ bounds
\* Derivative orders in ni and nj are drawn from 0..MaxOrder.
MaxOrder == 2

\* ------------------------------------------------------------ row helpers
RECURSIVE SumSeq(_)
SumSeq(s) == IF s = <<>> THEN 0 ELSE Head(s) + SumSeq(Tail(s))

RowPlus(r1, r2) == [d \in 1..Len(r1) |-> r1[d] + r2[d]]
RowMinus(r1, r2) == [d \in 1..Len(r1) |-> r1[d] - r2[d]]

\* (table == state).all(axis=1), as the row numbers where it is True.
RowsEqualTo(table, state) ==
    SelectSeq([m \in 1..Len(table) |-> m], LAMBDA m : table[m] = state)

\* table[idxs]
Take(table, idxs) == [t \in 1..Len(idxs) |-> table[idxs[t]]]

\* The position of row number m in idxs.
PosIn(idxs, m) == CHOOSE t \in 1..Len(idxs) : idxs[t] = m

\* What an evaluation raises, or the array it returns, with the calls it
\* made on the way.
Failed(e, events) == [err |-> e, events |-> events]
Value(obj, events) == [err |-> None, obj |-> obj, events |-> events]

\* ------------------------------- the primitives a chain-rule kernel supplies
\* self._compute_k(tau), one row
ComputeK(k, tau) == [kind |-> "k", params |-> k.params, tau |-> tau]

\* self._compute_y(tau, return_r2l2=True), one row
ComputeY(k, tau) == [kind |-> "y", params |-> k.params, tau |-> tau]

\* self._compute_dk_dy(y, order)
ComputeDkDy(k, y, order) == [kind |-> "dk_dy", y |-> y, order |-> order]

\* self._compute_dy_dtau(tau, b, r2l2)
ComputeDyDtau(k, tau, block) ==
    [kind |-> "dy_dtau", params |-> k.params, tau |-> tau, b |-> block]

\* Mutant: a request for a hyperparameter derivative goes unnoticed.
HyperDerivGiven_Unnoticed(args) == FALSE

\* hyper_deriv is not None (lines 467 and 638)
HyperDerivGiven(args) == ~IsNone(args.hyper_deriv)

\* --------------------------------------- ChainRuleKernel._compute_dk_dtau
\* Mutant: every dimension listed once, whatever its order.
Extended_Once(idx, times) == IF times > 0 THEN <<idx>> ELSE <<>>

\* n[idx] * [idx]
Extended(idx, times) == Repeat(idx, times)

RECURSIVE DerivPatternFrom(_, _)
\* Lines 513-515 from idx onwards; n_state[idx + 1] is n[idx] of the source.
DerivPatternFrom(n_state, idx) ==
    IF idx >= Len(n_state) THEN <<>>
    ELSE Extended(idx, n_state[idx + 1]) \o DerivPatternFrom(n_state, idx + 1)

\* deriv_pattern as the array of line 516.
DerivPattern(n_state) ==
    LET lst == DerivPatternFrom(n_state, 0)
    IN  [i \in 0..(Len(lst) - 1) |-> lst[i + 1]]

\* _compute_dk_dtau_on_partition(tau, p), one row: dk/dy of order len(p),
\* multiplied by one dy/dtau factor per block, in the order of the blocks.
ComputeDkDtauOnPartition(k, tau, p) ==
    [kind |-> "term",
     dk_dy |-> ComputeDkDy(k, ComputeY(k, tau), Len(p)),
     factors |-> [t \in 1..Len(p) |-> ComputeDyDtau(k, tau, p[t])]]

\* Mutant: no pattern taken for empty.
IsEmptyPattern_Never(deriv_pattern) == FALSE

\* len(deriv_pattern) == 0
IsEmptyPattern(deriv_pattern) == Cardinality(DOMAIN deriv_pattern) = 0

\* _compute_dk_dtau(tau, n): the array of one value per row of tau.
ComputeDkDtau(k, tau, n_state) ==
    LET deriv_pattern == DerivPattern(n_state) IN
    IF IsEmptyPattern(deriv_pattern)
    THEN Value([m \in 1..Len(tau) |-> ComputeK(k, tau[m])], <<>>)
    ELSE LET res == GenerateSetPartitions(deriv_pattern)
             called == <<[ev |-> "generate_set_partitions", set_ |-> deriv_pattern]>>
         IN  IF res.err # None THEN Failed(res.err, called)
             ELSE Value(
                      [m \in 1..Len(tau) |->
                          [kind |-> "sum",
                           terms |-> [p \in 1..Len(res.obj) |->
                                         ComputeDkDtauOnPartition(k, tau[m], res.obj[p])]]],
                      called)

\* ------------------------------------------------ ChainRuleKernel.__call__
\* k = scipy.zeros(...): nothing written yet.
ZerosK(M) == [err |-> None,
              k |-> [m \in 1..M |-> [kind |-> "zero"]],
              writes |-> [m \in 1..M |-> 0],
              events |-> <<>>]

\* k[idxs] = vals, read at row m.
Masked(old, idxs, vals, m) ==
    IF \E t \in 1..Len(idxs) : idxs[t] = m THEN vals[PosIn(idxs, m)] ELSE old[m]

RECURSIVE DkDtauLoop(_, _, _, _, _)
\* Lines 481-483 over the remaining states: k, how often each row was
\* written, and the calls made.
DkDtauLoop(k, tau, n_combined, states, acc) ==
    IF states = <<>> \/ acc.err # None THEN acc
    ELSE LET n_combined_state == Head(states)
             idxs == RowsEqualTo(n_combined, n_combined_state)
             res == ComputeDkDtau(k, Take(tau, idxs), n_combined_state)
             called == acc.events
                       \o <<[ev |-> "_compute_dk_dtau", n |-> n_combined_state]>>
                       \o res.events
         IN  DkDtauLoop(k, tau, n_combined, Tail(states),
                 IF res.err # None THEN Failed(res.err, called)
                 ELSE [err |-> None,
                       k |-> [m \in 1..Len(tau) |-> Masked(acc.k, idxs, res.obj, m)],
                       writes |-> [m \in 1..Len(tau) |->
                                      IF \E t \in 1..Len(idxs) : idxs[t] = m
                                      THEN acc.writes[m] + 1 ELSE acc.writes[m]],
                       events |-> called])

\* (-1.0)**n_tot_j
JChainFactor(n_tot_j) == IF n_tot_j % 2 = 0 THEN 1 ELSE -1

\* Mutant: the sign taken from the orders of the first point.
NTot_OfNi(args, m) == SumSeq(args.ni[m])

\* scipy.sum(nj, axis=1), row m
NTot(args, m) == SumSeq(args.nj[m])

\* ChainRuleKernel.__call__(Xi, Xj, ni, nj, hyper_deriv)
ChainRuleCall(k, args) ==
    IF HyperDerivGiven(args) THEN Failed("NotImplementedError", <<>>)
    ELSE LET M == Len(args.Xi)
             tau == [m \in 1..M |-> RowMinus(args.Xi[m], args.Xj[m])]
             n_combined == [m \in 1..M |-> RowPlus(args.ni[m], args.nj[m])]
             n_combined_unique == UniqueRows(n_combined)
             loop == DkDtauLoop(k, tau, n_combined, n_combined_unique, ZerosK(M))
             done == <<[ev |-> "unique_rows"]>> \o loop.events
         IN  IF loop.err # None THEN Failed(loop.err, done)
             ELSE IF Len(k.params) = 0 THEN Failed("IndexError", done)
             ELSE [err |-> None,
                   obj |-> [m \in 1..M |->
                               [kind |-> "chain",
                                scale |-> k.params[1] * k.params[1],
                                j_chain_factor |-> JChainFactor(NTot(args, m)),
                                dk_dtau |-> loop.k[m]]],
                   writes |-> loop.writes,
                   events |-> done]

\* --------------------------------------------------- ArbitraryKernel.__call__
\* self.cov_func(Xi, Xj, *self.params), one row; cov_func declares k.cov_func
\* arguments.
CovFunc(k, xi, xj) == [kind |-> "cov_func", params |-> k.params, Xi |-> xi, Xj |-> xj]

\* mpmath.chop(mpmath.diff(self._mask_cov_func, X_cat_row, n=n_cat_state,
\* singular=True)), in this process or in a worker alike.
Diff(k, x_cat_row, n_cat_state) ==
    [kind |-> "diff", f |-> CovFunc(k, SubSeq(x_cat_row, 1, k.num_dim),
                                       SubSeq(x_cat_row, k.num_dim + 1, Len(x_cat_row))),
     n |-> n_cat_state]

AllZero(row) == \A d \in 1..Len(row) : row[d] = 0

\* Calling cov_func with two points and the parameters fails unless it
\* takes that many arguments: all it declares, but for self.
ArityBad(k) ==
    (IF k.cov_func.kind = "function" THEN k.cov_func.declared
     ELSE k.cov_func.declared - 1) # 2 + Len(k.params)

\* Lines 649-662 for one state: the values of its rows and how they were
\* computed.  pool.map pickles _ArbitraryKernelEval(self, n_cat_state), the
\* kernel and its cov_func with it, for each task it sends: a bound method
\* cannot be pickled, pool.map raises PicklingError and no task is run.  A
\* cov_func that cannot be called raises out of line 650, or out of the
\* call of pool.map or of the first mpmath.diff.
ArbitraryGroup(k, args, X_cat, idxs, n_cat_state) ==
    IF /\ ~AllZero(n_cat_state)
       /\ k.num_proc > 0
       /\ Len(idxs) > 1
       /\ k.cov_func.kind = "method"
    THEN Failed("PicklingError", <<[ev |-> "pool.map", rows |-> idxs]>>)
    ELSE IF ArityBad(k)
    THEN Failed("TypeError",
                IF AllZero(n_cat_state) THEN <<>>
                ELSE IF k.num_proc > 0 /\ Len(idxs) > 1
                THEN <<[ev |-> "pool.map", rows |-> idxs]>>
                ELSE <<[ev |-> "mpmath.diff", rows |-> <<idxs[1]>>]>>)
    ELSE IF AllZero(n_cat_state)
    THEN Value([t \in 1..Len(idxs) |-> CovFunc(k, args.Xi[idxs[t]], args.Xj[idxs[t]])],
               <<[ev |-> "cov_func", rows |-> idxs]>>)
    ELSE Value([t \in 1..Len(idxs) |-> Diff(k, X_cat[idxs[t]], n_cat_state)],
               IF k.num_proc > 0 /\ Len(idxs) > 1
               THEN <<[ev |-> "pool.map", rows |-> idxs]>>
               ELSE [t \in 1..Len(idxs) |-> [ev |-> "mpmath.diff", rows |-> <<idxs[t]>>]])

RECURSIVE ArbitraryLoop(_, _, _, _, _, _)
\* Lines 647-662 over the remaining states.
ArbitraryLoop(k, args, n_cat, X_cat, states, acc) ==
    IF states = <<>> \/ acc.err # None THEN acc
    ELSE LET n_cat_state == Head(states)
             idxs == RowsEqualTo(n_cat, n_cat_state)
             res == ArbitraryGroup(k, args, X_cat, idxs, n_cat_state)
             called == acc.events \o res.events
         IN  ArbitraryLoop(k, args, n_cat, X_cat, Tail(states),
                 IF res.err # None THEN Failed(res.err, called)
                 ELSE [err |-> None,
                       k |-> [m \in 1..Len(n_cat) |-> Masked(acc.k, idxs, res.obj, m)],
                       writes |-> [m \in 1..Len(n_cat) |->
                                      IF \E t \in 1..Len(idxs) : idxs[t] = m
                                      THEN acc.writes[m] + 1 ELSE acc.writes[m]],
                       events |-> called])

\* ArbitraryKernel.__call__(Xi, Xj, ni, nj, hyper_deriv)
ArbitraryCall(k, args) ==
    IF HyperDerivGiven(args) THEN Failed("NotImplementedError", <<>>)
    ELSE LET M == Len(args.Xi)
             n_cat == [m \in 1..M |-> args.ni[m] \o args.nj[m]]
             X_cat == [m \in 1..M |-> args.Xi[m] \o args.Xj[m]]
             n_cat_unique == UniqueRows(n_cat)
             pooled == k.num_proc > 0
             start == [ZerosK(M) EXCEPT !.events =
                          <<[ev |-> "unique_rows"]>>
                          \o (IF pooled THEN <<[ev |-> "Pool"]>> ELSE <<>>)]
             loop == ArbitraryLoop(k, args, n_cat, X_cat, n_cat_unique, start)
         IN  IF loop.err # None THEN Failed(loop.err, loop.events)
             ELSE [err |-> None,
                   obj |-> loop.k,
                   writes |-> loop.writes,
                   events |-> loop.events
                              \o (IF pooled THEN <<[ev |-> "pool.close"]>> ELSE <<>>)]

\* ------------------------------------------------------- concrete kernels
\* A concrete kernel that implements evaluate for every hyper_deriv.
ConcreteCall(k, args) ==
    Value([m \in 1..Len(args.Xi) |->
              [kind |-> "concrete", params |-> k.params, Xi |-> args.Xi[m],
               Xj |-> args.Xj[m], ni |-> args.ni[m], nj |-> args.nj[m],
               hyper_deriv |-> args.hyper_deriv]],
          <<>>)

\* --------------------------------------- SumKernel / ProductKernel.__call__
\* 'hyper_deriv' in kwargs and kwargs['hyper_deriv'] is not None
HyperDerivInKwargs(args) == args.how = "keyword" /\ ~IsNone(args.hyper_deriv)

\* Mutant: the product formed like the sum.
Combine_AlwaysSum(cls, v1, v2) == [kind |-> "+", k1 |-> v1, k2 |-> v2]

\* k1(...) + k2(...) or k1(...) * k2(...), one row.
Combine(cls, v1, v2) ==
    [kind |-> IF cls = "SumKernel" THEN "+" ELSE "*", k1 |-> v1, k2 |-> v2]

RECURSIVE Call(_, _, _)
\* heap[r](*args, **kwargs): the class of the object decides the method.
Call(heap, r, args) ==
    LET k == heap[r] IN
    CASE k.cls = "Kernel" -> Failed("NotImplementedError", <<>>)
      [] k.cls = "ChainRuleKernel" -> ChainRuleCall(k, args)
      [] k.cls = "ArbitraryKernel" -> ArbitraryCall(k, args)
      [] k.cls = "ConcreteKernel" -> ConcreteCall(k, args)
      [] k.cls \in BinaryClasses ->
            IF k.cls = "SumKernel" /\ HyperDerivInKwargs(args)
            THEN Failed("NotImplementedError", <<>>)
            ELSE LET r1 == Call(heap, k.k1, args)
                     c1 == <<[ev |-> "call", ref |-> k.k1]>> \o r1.events
                     r2 == Call(heap, k.k2, args)
                     c2 == c1 \o <<[ev |-> "call", ref |-> k.k2]>> \o r2.events
                 IN  IF r1.err # None THEN Failed(r1.err, c1)
                     ELSE IF r2.err # None THEN Failed(r2.err, c2)
                     ELSE Value([m \in 1..Len(r1.obj) |->
                                    Combine(k.cls, r1.obj[m], r2.obj[m])], c2)

\* ------------------------------------------------------------ client inputs
\* The client builds one of a few kernels, may call set_hyperparams once on
\* any of its objects, and then evaluates the object built last, or calls its
\* _compute_dk_dtau.
Leaf(cls, args) == KernelInit(cls, args).obj

ChainRuleLeaf ==
    Leaf("ChainRuleKernel", [DefaultArgs(1, 2) EXCEPT !.initial_params = Given(<<2, 1>>)])

ChainRuleLeafFixed ==
    Leaf("ChainRuleKernel", [DefaultArgs(1, 2) EXCEPT !.initial_params = Given(<<1, 2>>),
                                                     !.fixed_params = Given(<<FALSE, TRUE>>)])

ChainRuleLeaf3 == Leaf("ChainRuleKernel", DefaultArgs(3, 4))

BaseLeaf == Leaf("Kernel", DefaultArgs(1, 1))

ConcreteLeaf == Leaf("ConcreteKernel", DefaultArgs(1, 1))

ArbitraryLeaf(num_proc) ==
    ArbitraryKernelInit(
        [cov_func |-> [kind |-> "function", declared |-> 3],
         num_proc |-> Given(num_proc), num_dim |-> 1,
         num_params |-> Absent, initial_params |-> Absent, fixed_params |-> Absent,
         param_bounds |-> Absent, enforce_bounds |-> FALSE, hyperpriors |-> Absent,
         is_log |-> Absent], 1).obj

\* ArbitraryKernel(cov_func, num_proc=num_proc, num_params=num_params) for
\* any callable: def f(Xi, Xj, p1), or obj.f with def f(self, Xi, Xj, p1),
\* on which the kernel counts self as a parameter and cannot call cov_func
\* unless num_params is given.
PoolLeaf(cov_func, num_params, num_proc) ==
    ArbitraryKernelInit(
        [cov_func |-> cov_func, num_proc |-> Given(num_proc), num_dim |-> 1,
         num_params |-> num_params, initial_params |-> Absent, fixed_params |-> Absent,
         param_bounds |-> Absent, enforce_bounds |-> FALSE, hyperpriors |-> Absent,
         is_log |-> Absent], 1).obj

\* heap, then cls(o1, o2) appended
Combined(heap, cls, o1, o2) == Append(heap, BinaryKernelInit(heap, cls, o1, o2).obj)

EvalHeaps ==
    {<<ChainRuleLeaf>>, <<ChainRuleLeaf3>>, <<BaseLeaf>>, <<ArbitraryLeaf(0)>>,
     <<ArbitraryLeaf(2)>>,
     <<PoolLeaf([kind |-> "method", declared |-> 4], Given(1), 2)>>,
     <<PoolLeaf([kind |-> "function", declared |-> 4], Given(1), 2)>>}
    \cup {Combined(leaves, "SumKernel", 1, 2) :
              leaves \in {<<ChainRuleLeaf, ChainRuleLeafFixed>>,
                          <<ChainRuleLeaf, BaseLeaf>>,
                          <<ChainRuleLeaf, ArbitraryLeaf(0)>>,
                          <<ArbitraryLeaf(0), ChainRuleLeaf>>,
                          <<ConcreteLeaf, ChainRuleLeaf>>,
                          <<ConcreteLeaf, ConcreteLeaf>>}}
    \cup {Combined(leaves, "ProductKernel", 1, 2) :
              leaves \in {<<ChainRuleLeaf, ChainRuleLeafFixed>>,
                          <<ArbitraryLeaf(0), ChainRuleLeaf>>,
                          <<ConcreteLeaf, ChainRuleLeaf>>}}
    \cup {Combined(<<ChainRuleLeaf>>, cls, 1, 1) : cls \in BinaryClasses}
    \cup {Combined(Combined(<<ChainRuleLeaf, ChainRuleLeafFixed>>, "SumKernel", 1, 2),
                    "ProductKernel", 3, 1)}

\* The vectors handed to set_hyperparams before an evaluation: every entry 1,
\* every entry 2, or one entry too many.
EvalParams(f) == {Repeat(v, f) : v \in {1, 2}} \cup {Repeat(2, f + 1)}

\* One pair of points and their derivative orders, the combined order at
\* most MaxN.
PairRows(num_dim) ==
    IF num_dim = 1
    THEN {row \in [Xi : {<<0>>, <<1>>}, Xj : {<<0>>},
                   ni : [1..1 -> 0..MaxOrder], nj : [1..1 -> 0..MaxOrder]] :
             SumSeq(row.ni) + SumSeq(row.nj) <= MaxN}
    ELSE [Xi : {<<1, 0, 2>>}, Xj : {<<0, 0, 0>>},
          ni : {<<0, 0, 0>>, <<1, 0, 0>>, <<2, 1, 0>>},
          nj : {<<0, 0, 0>>, <<0, 0, 1>>}]

\* The same pair, the orders of the two points exchanged.
Swapped(row) == [row EXCEPT !.ni = row.nj, !.nj = row.ni]

\* The pairs put at the second place: no derivative by the second point, at
\* most one by the first.
PlainRows(num_dim) ==
    {row \in PairRows(num_dim) : row.Xi[1] = 1 /\ SumSeq(row.nj) = 0 /\ SumSeq(row.ni) <= 1}

\* The tables of pairs handed to evaluate: one pair, or three of which the
\* third is the first with its orders exchanged, or three times the same.
PairTables(num_dim) ==
    {<<row>> : row \in PairRows(num_dim)}
    \cup {<<r1, r2, Swapped(r1)>> : r1 \in PairRows(num_dim), r2 \in PlainRows(num_dim)}
    \cup {<<row, row, row>> : row \in PlainRows(num_dim)}

\* hyper_deriv left out, or passed by keyword or as the fifth positional
\* argument, as None or as an index.
HyperDerivs ==
    {[how |-> "omitted", hyper_deriv |-> Absent]}
    \cup [how : {"keyword", "position"}, hyper_deriv : {Absent, Given(0)}]

Arguments(table, hd) ==
    [Xi |-> [m \in 1..Len(table) |-> table[m].Xi],
     Xj |-> [m \in 1..Len(table) |-> table[m].Xj],
     ni |-> [m \in 1..Len(table) |-> table[m].ni],
     nj |-> [m \in 1..Len(table) |-> table[m].nj],
     how |-> hd.how,
     hyper_deriv |-> hd.hyper_deriv]

\* The object evaluated: the one built last.
Root == Len(kernels)

\* The calls of evaluate the client may make next.
EvaluateArgs ==
    IF call.op # None THEN {}
    ELSE {Arguments(table, [how |-> "omitted", hyper_deriv |-> Absent]) :
              table \in PairTables(kernels[Root].num_dim)}
         \cup {Arguments(<<row>>, hd) :
                  row \in PlainRows(kernels[Root].num_dim), hd \in HyperDerivs}

\* The multi-indices the client may hand to _compute_dk_dtau next.
MultiIndices ==
    IF call.op # None \/ kernels[Root].cls # "ChainRuleKernel" THEN {}
    ELSE {nr \in [1..kernels[Root].num_dim -> 0..MaxOrder] : SumSeq(nr) <= MaxN}

\* The objects the client may call set_hyperparams on next: any, once,
\* before the evaluation.
Settable == IF call.op = None /\ last.op = "start" THEN 1..Len(kernels) ELSE {}

\* ------------------------------------------------------------------ actions
InitEvaluate ==
    /\ set_ = <<>>
    /\ a = <<>>
    /\ b = <<>>
    /\ j = None
    /\ strings = <<>>
    /\ partitions = None
    /\ pc = "idle"
    /\ scenario = "nested"
    /\ kernels \in EvalHeaps
    /\ last = [op |-> "start", outcome |-> None]
    /\ delegated = <<>>
    /\ call = [op |-> None]
    /\ result = [op |-> None]
    /\ pools = <<>>
    /\ frame = [pc |-> "idle"]

\* What a call that computes a value leaves behind.
Computed(c, res) ==
    /\ call' = c
    /\ result' = res
    /\ last' = [op |-> c.op, outcome |-> IF res.err = None THEN "ok" ELSE res.err]
    /\ delegated' = <<>>
    /\ UNCHANGED <<scenario, kernels>>
    /\ UNCHANGED partVars

\* kernels[Root](Xi, Xj, ni, nj[, hyper_deriv]), a call that runs in the
\* client's process alone, taken as one step.  A call that creates a
\* multiprocessing.Pool is followed statement by statement instead (Enter,
\* Group, PoolMap, Worker, MapReturns, MapRaises, Leave).
Evaluate(args) ==
    /\ pc = "idle"
    /\ frame.pc = "idle"
    /\ \E res \in {Call(kernels, Root, args)} :
           /\ \A i \in 1..Len(res.events) : res.events[i].ev # "Pool"
           /\ Computed([op |-> "evaluate", self |-> Root, args |-> args], res)
    /\ UNCHANGED poolVars

\* kernels[Root]._compute_dk_dtau(tau, n)
ComputeDkDtauCall(tau, n_state) ==
    /\ pc = "idle"
    /\ Computed([op |-> "_compute_dk_dtau", self |-> Root, tau |-> tau, n |-> n_state],
                ComputeDkDtau(kernels[Root], tau, n_state))
    /\ UNCHANGED poolVars



\* ============ gptools/kernel/core.py: ArbitraryKernel.__call__, by statement
\* The evaluation of an ArbitraryKernel followed statement by statement, the
\* tasks handed to the pool finishing in any order.
MaxCalls == 2

\* The kernels evaluated: cov_func a function or a bound method, with the
\* number of parameters found by inspection or given, right or wrong for
\* the function.
PoolHeaps ==
    {<<PoolLeaf(cov_func, num_params, num_proc)>> :
        cov_func \in {[kind |-> "function", declared |-> 3],
                      [kind |-> "method", declared |-> 4]},
        num_params \in {Absent, Given(1), Given(2)},
        num_proc \in {0, 2}}

\* The tables evaluated: one pair or three, no derivative by the second
\* point and at most one by the first, so that a state may have one, two or
\* three rows.
PoolTables ==
    LET rows == {row \in PairRows(1) : SumSeq(row.nj) = 0 /\ SumSeq(row.ni) <= 1}
    IN  {<<row>> : row \in rows} \cup [1..3 -> rows]

\* The calls of evaluate the client may make next: the first on any table,
\* a later one on the same arguments again.
PoolArgs ==
    IF frame.pc # "idle" THEN {}
    ELSE IF call.op = None
    THEN {Arguments(table, [how |-> "omitted", hyper_deriv |-> Absent]) : table \in PoolTables}
         \cup {Arguments(table, [how |-> "keyword", hyper_deriv |-> Given(0)]) :
                  table \in {t \in PoolTables : Len(t) = 1}}
    ELSE IF call.number < MaxCalls THEN {call.args}
    ELSE {}

\* The vectors the client may hand to set_hyperparams between two calls.
PoolParams ==
    IF frame.pc = "idle" /\ last.op = "evaluate"
    THEN EvalParams(CountFree(kernels[Root].fixed_params))
    ELSE {}

InitPool ==
    /\ set_ = <<>>
    /\ a = <<>>
    /\ b = <<>>
    /\ j = None
    /\ strings = <<>>
    /\ partitions = None
    /\ pc = "idle"
    /\ scenario = "pool"
    /\ kernels \in PoolHeaps
    /\ last = [op |-> "start", outcome |-> None]
    /\ delegated = <<>>
    /\ call = [op |-> None]
    /\ result = [op |-> None]
    /\ pools = <<>>
    /\ frame = [pc |-> "idle"]

\* The call ends: it returns or raises res, and its locals are gone.
Ended(res) ==
    /\ frame' = [pc |-> "idle"]
    /\ result' = res
    /\ last' = [op |-> "evaluate", outcome |-> IF res.err = None THEN "ok" ELSE res.err]
    /\ delegated' = <<>>

\* The call goes on.
Running == UNCHANGED <<result, last, delegated>>

\* Lines 638-646: the check of hyper_deriv, the locals, and the pool if
\* num_proc > 0.
Enter(args) ==
    /\ pc = "idle"
    /\ frame.pc = "idle"
    /\ LET k == kernels[Root]
           M == Len(args.Xi)
           n_cat == [m \in 1..M |-> args.ni[m] \o args.nj[m]]
           pooled == k.num_proc > 0
           number == IF call.op = None THEN 1 ELSE call.number + 1
       IN  /\ call' = [op |-> "evaluate", self |-> Root, args |-> args, number |-> number]
           /\ IF HyperDerivGiven(args)
              THEN /\ Ended(Failed("NotImplementedError", <<>>))
                   /\ UNCHANGED pools
              ELSE /\ frame' = [pc |-> "loop",
                                n_cat |-> n_cat,
                                X_cat |-> [m \in 1..M |-> args.Xi[m] \o args.Xj[m]],
                                states |-> UniqueRows(n_cat),
                                k |-> ZerosK(M).k,
                                pool |-> IF pooled THEN Len(pools) + 1 ELSE 0,
                                tasks |-> <<>>,
                                finished |-> <<>>,
                                events |-> <<[ev |-> "unique_rows"]>>
                                           \o (IF pooled THEN <<[ev |-> "Pool"]>> ELSE <<>>)]
                   /\ pools' = IF pooled
                               THEN Append(pools, [state |-> "open", call |-> number])
                               ELSE pools
                   /\ result' = [op |-> None]
                   /\ UNCHANGED <<last, delegated>>
    /\ UNCHANGED <<scenario, kernels>>
    /\ UNCHANGED partVars

\* len(idxs) > 1 with a pool and a derivative asked for (lines 649, 652).
ToPool(k, idxs, n_cat_state) == ~AllZero(n_cat_state) /\ k.num_proc > 0 /\ Len(idxs) > 1

\* Lines 647-651 and 660-662: the next state, its rows computed in this
\* process; an error of cov_func ends the call there.
Group ==
    /\ frame.pc = "loop"
    /\ frame.states # <<>>
    /\ LET k == kernels[call.self]
           n_cat_state == Head(frame.states)
           idxs == RowsEqualTo(frame.n_cat, n_cat_state)
           res == ArbitraryGroup(k, call.args, frame.X_cat, idxs, n_cat_state)
       IN  /\ ~ToPool(k, idxs, n_cat_state)
           /\ IF res.err # None
              THEN Ended(Failed(res.err, frame.events \o res.events))
              ELSE /\ frame' = [frame EXCEPT
                                   !.states = Tail(@),
                                   !.k = [m \in 1..Len(frame.n_cat) |->
                                             Masked(frame.k, idxs, res.obj, m)],
                                   !.events = @ \o res.events]
                   /\ Running
    /\ UNCHANGED <<scenario, kernels, call, pools>>
    /\ UNCHANGED partVars

\* Line 653, the call of pool.map: one task per row of the state, each with
\* its own copy of _ArbitraryKernelEval(self, n_cat_state) and of its row.
\* The copy is made by pickling when the task is sent: with a bound method
\* as cov_func that fails, and the task has failed before a worker has it.
PoolMap ==
    /\ frame.pc = "loop"
    /\ frame.states # <<>>
    /\ LET k == kernels[call.self]
           n_cat_state == Head(frame.states)
           idxs == RowsEqualTo(frame.n_cat, n_cat_state)
       IN  /\ ToPool(k, idxs, n_cat_state)
           /\ frame' = [frame EXCEPT
                           !.pc = "map",
                           !.tasks = [t \in 1..Len(idxs) |->
                                         [obj |-> k,
                                          n_cat_state |-> n_cat_state,
                                          X_cat_row |-> frame.X_cat[idxs[t]],
                                          pool |-> frame.pool,
                                          out |-> IF k.cov_func.kind = "method"
                                                  THEN [kind |-> "error",
                                                        err |-> "PicklingError"]
                                                  ELSE [kind |-> "queued"]]],
                           !.finished = <<>>]
    /\ Running
    /\ UNCHANGED <<scenario, kernels, call, pools>>
    /\ UNCHANGED partVars

\* _ArbitraryKernelEval.__call__(X_cat_row) in a worker: the derivative, or
\* the error of cov_func.
ArbitraryKernelEval(task) ==
    IF ArityBad(task.obj) THEN [kind |-> "error", err |-> "TypeError"]
    ELSE Diff(task.obj, task.X_cat_row, task.n_cat_state)

\* The tasks no worker has taken yet.
Queued ==
    IF frame.pc # "map" THEN {}
    ELSE {t \in 1..Len(frame.tasks) : frame.tasks[t].out.kind = "queued"}

\* A worker of the pool runs task t to its end.
Worker(t) ==
    /\ frame.pc = "map"
    /\ frame' = [frame EXCEPT !.tasks[t].out = ArbitraryKernelEval(frame.tasks[t]),
                              !.finished = Append(@, t)]
    /\ Running
    /\ UNCHANGED <<scenario, kernels, call, pools>>
    /\ UNCHANGED partVars

\* Mutant: the results in the order the tasks finished.
MapResult_AsFinished(tasks, finished) == [t \in 1..Len(tasks) |-> tasks[finished[t]].out]

\* The list pool.map returns: the result of task t at place t.
MapResult(tasks, finished) == [t \in 1..Len(tasks) |-> tasks[t].out]

\* Line 653, pool.map returns: every task has finished, k[idxs] is assigned.
MapReturns ==
    /\ frame.pc = "map"
    /\ \A t \in 1..Len(frame.tasks) : frame.tasks[t].out.kind = "diff"
    /\ LET idxs == RowsEqualTo(frame.n_cat, Head(frame.states))
           vals == MapResult(frame.tasks, frame.finished)
       IN  frame' = [frame EXCEPT
                        !.pc = "loop",
                        !.states = Tail(@),
                        !.k = [m \in 1..Len(frame.n_cat) |-> Masked(frame.k, idxs, vals, m)],
                        !.tasks = <<>>,
                        !.finished = <<>>,
                        !.events = Append(@, [ev |-> "pool.map", rows |-> idxs,
                                              finished |-> frame.finished])]
    /\ Running
    /\ UNCHANGED <<scenario, kernels, call, pools>>
    /\ UNCHANGED partVars

\* Line 653, pool.map raises the error of a task that failed, in a worker
\* or when it was sent; the call ends there.
MapRaises ==
    /\ frame.pc = "map"
    /\ \E t \in 1..Len(frame.tasks) :
           /\ frame.tasks[t].out.kind = "error"
           /\ Ended(Failed(frame.tasks[t].out.err,
                           Append(frame.events,
                                  [ev |-> "pool.map",
                                   rows |-> RowsEqualTo(frame.n_cat, Head(frame.states)),
                                   finished |-> frame.finished])))
    /\ UNCHANGED <<scenario, kernels, call, pools>>
    /\ UNCHANGED partVars

\* Lines 664-666: pool.close() if there is a pool, and k returned.
Leave ==
    /\ frame.pc = "loop"
    /\ frame.states = <<>>
    /\ pools' = IF frame.pool # 0 THEN [pools EXCEPT ![frame.pool].state = "closed"]
                ELSE pools
    /\ Ended(Value(frame.k, frame.events
                            \o (IF frame.pool # 0 THEN <<[ev |-> "pool.close"]>> ELSE <<>>)))
    /\ UNCHANGED <<scenario, kernels, call>>
    /\ UNCHANGED partVars

\* The client of the evaluation section: calls that create a pool are taken
\* by statement.
NextEvaluate ==
    \/ \E r \in Settable :
           \E new_params \in EvalParams(CountFree(kernels[r].fixed_params)) :
               SetHyperparamsCall(r, new_params)
    \/ \E args \in EvaluateArgs : Evaluate(args)
    \/ \E args \in {x \in EvaluateArgs : /\ kernels[Root].cls = "ArbitraryKernel"
                                          /\ kernels[Root].num_proc > 0
                                          /\ ~HyperDerivGiven(x)} : Enter(args)
    \/ Group
    \/ PoolMap
    \/ \E t \in Queued : Worker(t)
    \/ MapReturns
    \/ MapRaises
    \/ Leave
    \/ \E n_state \in MultiIndices :
           \E tau \in {<<RowMinus(row.Xi, row.Xj)>> : row \in PairRows(kernels[Root].num_dim)} :
               ComputeDkDtauCall(tau, n_state)

SpecEvaluate == InitEvaluate /\ [][NextEvaluate]_vars

NextPool ==
    \/ \E args \in PoolArgs : Enter(args)
    \/ Group
    \/ PoolMap
    \/ \E t \in Queued : Worker(t)
    \/ MapReturns
    \/ MapRaises
    \/ Leave
    \/ \E new_params \in PoolParams : SetHyperparamsCall(Root, new_params)

SpecPool == InitPool /\ [][NextPool]_vars


\* ------------------------------------------------- claims: partitions
RECURSIVE Stirling2(_, _)
\* Number of partitions of an m-set into k non-empty blocks.
Stirling2(m, k) ==
    IF m = 0 /\ k = 0 THEN 1
    ELSE IF m = 0 \/ k = 0 THEN 0
    ELSE k * Stirling2(m - 1, k) + Stirling2(m - 1, k - 1)

RECURSIVE SumTo(_, _)
SumTo(F(_), k) == IF k < 0 THEN 0 ELSE F(k) + SumTo(F, k - 1)

\* The m-th Bell number: 1, 1, 2, 5, 15, 52, ...
Bell(m) == LET S(k) == Stirling2(m, k) IN SumTo(S, m)

Returned == pc \in {"returned", "done"}

\* C1 (as claimed): for every size n = 0, 1, 2, 3, 4 the generator returns
\* Bell(n) partitions, that is 1, 1, 2, 5 and 15, from
\* generate_set_partition_strings and from generate_set_partitions alike.
C1_BellCounts ==
    /\ (Returned /\ n <= 4) => Len(strings) = Bell(n)
    /\ (pc = "done" /\ n <= 4) => Len(partitions) = Bell(n)

IsRGS(s) ==
    /\ s[0] = 0
    /\ \A i \in DOMAIN s : i >= 1 => s[i] <= 1 + Max({s[k] : k \in 0..(i - 1)})

AllRGS(m) == {s \in [0..(m - 1) -> 0..(m - 1)] : IsRGS(s)}

\* s strictly before t in lexicographic order (equal lengths).
LexLess(s, t) ==
    \E i \in DOMAIN s :
        /\ s[i] < t[i]
        /\ \A k \in DOMAIN s : k < i => s[k] = t[k]

\* C2: for n >= 1 the strings visited are restricted-growth strings in
\* strictly increasing lexicographic order at every moment of the run, and
\* when the generator returns they are all the restricted-growth strings of
\* length n: none missing, none twice, none out of order.
C2_AllStringsInLexOrder ==
    n >= 1 =>
        /\ \A p \in 1..Len(strings) : DOMAIN strings[p] = 0..(n - 1) /\ IsRGS(strings[p])
        /\ \A p \in 1..(Len(strings) - 1) : LexLess(strings[p], strings[p + 1])
        /\ Returned => {strings[p] : p \in 1..Len(strings)} = AllRGS(n)

C2_Witness == pc = "returned" /\ n = 4 /\ Len(strings) = 15

CountIn(seq, v) == Cardinality({k \in DOMAIN seq : seq[k] = v})

RECURSIVE CountInBlocks(_, _)
CountInBlocks(blocks, v) ==
    IF blocks = <<>> THEN 0
    ELSE CountIn(Head(blocks), v) + CountInBlocks(Tail(blocks), v)

RECURSIVE TotalLen(_)
TotalLen(blocks) ==
    IF blocks = <<>> THEN 0 ELSE Len(Head(blocks)) + TotalLen(Tail(blocks))

\* C3: every partition returned by generate_set_partitions has non-empty
\* blocks that hold the n positions of the input exactly once: the block
\* sizes add up to n and every value occurs in the blocks as often as in
\* set_ (repeated values included); the number of blocks is the largest
\* label of the partition's string plus one.
C3_BlocksCoverOnce ==
    pc = "done" =>
        /\ Len(partitions) = Len(strings)
        /\ \A p \in 1..Len(partitions) :
              /\ \A k \in 1..Len(partitions[p]) : Len(partitions[p][k]) >= 1
              /\ TotalLen(partitions[p]) = n
              /\ \A v \in Range(set_) \cup 0..MaxElem :
                    CountInBlocks(partitions[p], v) = CountIn(set_, v)
              /\ Len(partitions[p]) = Max(Range(strings[p])) + 1

\* The derivative pattern [0, 0, 1] split into its five partitions.
C3_Witness ==
    /\ pc = "done"
    /\ set_ = (0 :> 0) @@ (1 :> 0) @@ (2 :> 1)
    /\ Len(partitions) = 5

\* C4: for n = 0 the generator returns nothing, and for n = 1 exactly one
\* partition whose single block holds the single index (element).
C4_EdgeCases ==
    /\ (Returned /\ n = 0) => strings = <<>>
    /\ (pc = "done" /\ n = 0) => partitions = <<>>
    /\ (Returned /\ n = 1) => strings = <<(0 :> 0)>>
    /\ (pc = "done" /\ n = 1) => partitions = << << <<set_[0]>> >> >>

C4_Witness == pc = "done" /\ n = 0 /\ strings = <<>> /\ partitions = <<>>


\* The generator run step by step and the generator as one function agree.
StepsAgreeWithFunction ==
    /\ Returned => GenerateSetPartitionStrings(n) = [err |-> None, obj |-> strings]
    /\ pc = "done" => GenerateSetPartitions(set_) = [err |-> None, obj |-> partitions]
    /\ pc = "IndexError" => GenerateSetPartitionStrings(n) = [err |-> "IndexError"]

\* ---------------------------------------------------- claims: kernels
Refs == 1..Len(kernels)

RECURSIVE TreeRefs(_, _)
\* Every object of the tree under r, r first, children left to right; an
\* object reached twice is listed twice.
TreeRefs(heap, r) ==
    IF IsBinary(heap[r])
    THEN <<r>> \o TreeRefs(heap, heap[r].k1) \o TreeRefs(heap, heap[r].k2)
    ELSE <<r>>

LeafRefs(heap, r) == SelectSeq(TreeRefs(heap, r), LAMBDA q : ~IsBinary(heap[q]))

\* No object occurs twice under r.
TreeShaped(heap, r) ==
    Cardinality(Range(TreeRefs(heap, r))) = Len(TreeRefs(heap, r))

NoEnforcement(heap, r) ==
    \A i \in 1..Len(TreeRefs(heap, r)) : ~heap[TreeRefs(heap, r)[i]].enforce_bounds

\* new[lo:hi]
Slice(new, lo, hi) == SubSeq(new, lo + 1, hi)

IsConcatenation(heap, r) ==
    LET k == heap[r]
        k1 == heap[k.k1]
        k2 == heap[k.k2]
    IN  /\ k.params = k1.params \o k2.params
        /\ k.fixed_params = k1.fixed_params \o k2.fixed_params
        /\ k.param_bounds = k1.param_bounds \o k2.param_bounds
        /\ k.hyperpriors = k1.hyperpriors \o k2.hyperpriors
        /\ k.is_log = k1.is_log \o k2.is_log

\* C5 (as claimed): in every reachable state the params, fixed_params,
\* param_bounds, hyperpriors and is_log of a Sum or Product kernel are the
\* concatenation of k1's followed by k2's.
C5_CombinatorIsConcatenation ==
    \A r \in Refs : IsBinary(kernels[r]) => IsConcatenation(kernels, r)

\* The calls made by combinator r itself during the step.
DirectCalls(r) == SelectSeq(delegated', LAMBDA c : c.caller = r)

\* The calls received by base kernels during the step, in the order made.
LeafCalls == SelectSeq(delegated', LAMBDA c : ~IsBinary(kernels[c.ref]))

\* new is split at f1 = number of non-fixed parameters of k1, the two parts
\* go to k1 and k2, once each, in this order.
SplitOnce(r, new) ==
    LET k == kernels[r]
        f1 == CountFree(kernels[k.k1].fixed_params)
    IN  DirectCalls(r) = <<[caller |-> r, ref |-> k.k1, lo |-> 0, hi |-> f1],
                            [caller |-> r, ref |-> k.k2, lo |-> f1, hi |-> Len(new)]>>

\* Afterwards the children hold their parts, and every leaf under r was
\* called once with its own segment, the segments tiling new left to right.
SegmentsArrive(r, new) ==
    LET k == kernels[r]
        f1 == CountFree(kernels[k.k1].fixed_params)
    IN  /\ FreeParams(kernels'[k.k1]) = Slice(new, 0, f1)
        /\ FreeParams(kernels'[k.k2]) = Slice(new, f1, Len(new))
        /\ [i \in 1..Len(LeafCalls) |-> LeafCalls[i].ref] = LeafRefs(kernels, r)
        /\ LeafCalls[1].lo = 0
        /\ LeafCalls[Len(LeafCalls)].hi = Len(new)
        /\ \A i \in 1..(Len(LeafCalls) - 1) : LeafCalls[i].hi = LeafCalls[i + 1].lo
        /\ \A i \in 1..Len(LeafCalls) :
              FreeParams(kernels'[LeafCalls[i].ref]) =
                  Slice(new, LeafCalls[i].lo, LeafCalls[i].hi)

\* The step is a call of set_hyperparams.
SetStep == last'.op = "set_hyperparams"

\* The step is a call of set_hyperparams on a combinator that passed the
\* combinator's length check: only then is anything delegated.
CombinatorStep == SetStep /\ delegated' # <<>>

\* The combinator called in a CombinatorStep: the caller of the first
\* delegated call.
Receiver == delegated'[1].caller

\* A combinator writes the vector into its own free slots (line 359) before
\* it delegates, so the vector of the call is read back from the combinator.
VectorGiven == FreeParams(kernels'[Receiver])

\* C6 (as claimed): a combinator's set_hyperparams(new), len(new) its free
\* count, splits new at f1 and passes the parts to k1 and k2 once each;
\* afterwards, nothing under it enforcing bounds, k1.free_params = new[0:f1],
\* k2.free_params = new[f1:] and every leaf holds its own contiguous segment,
\* left to right.
C6_SplitDelivered ==
    [][CombinatorStep =>
          /\ SetHyperparamsCall(Receiver, VectorGiven)
          /\ last'.outcome = "ok"
          /\ SplitOnce(Receiver, VectorGiven)
          /\ NoEnforcement(kernels, Receiver)
                 => SegmentsArrive(Receiver, VectorGiven)]_vars

\* C6 restricted to trees: the same, the delivery required only when no
\* kernel object occurs twice under the combinator (k1 and k2 share no
\* object).  This much holds.
C6_SplitDeliveredInTrees ==
    [][CombinatorStep =>
          /\ SetHyperparamsCall(Receiver, VectorGiven)
          /\ last'.outcome = "ok"
          /\ SplitOnce(Receiver, VectorGiven)
          /\ (NoEnforcement(kernels, Receiver) /\ TreeShaped(kernels, Receiver))
                 => SegmentsArrive(Receiver, VectorGiven)]_vars

\* (s (+|*) c).set_hyperparams([1, 2, 1]) with s = a (+|*) b has just returned.
C6_Witness ==
    /\ scenario = "nested"
    /\ Len(kernels) = 5
    /\ last = [op |-> "set_hyperparams", outcome |-> "ok"]
    /\ kernels[5].k1 = 4 /\ kernels[5].k2 = 3
    /\ Len(delegated) = 4
    /\ kernels[1].params = <<1>> /\ kernels[2].params = <<2>> /\ kernels[3].params = <<1>>
    /\ kernels[5].params = <<1, 2, 1>>

\* ------------------------------------------------------------------- C7
\* The step is the call r.set_hyperparams(new) and it returned.
Returns(r, new) == SetHyperparamsCall(r, new) /\ last'.outcome = "ok"

InBound(v, bound) == bound[1] <= v /\ v <= bound[2]

\* What the call wrote: new[i] in the i-th non-fixed slot, in declaration
\* order (under enforcement, new[i] whenever it lies within the slot's
\* bound); every fixed entry, fixed_params, param_bounds, num_params, num_dim
\* and every other attribute and object as before.
FrameEffect(r, new) ==
    LET before == kernels[r]
        after == kernels'[r]
    IN  /\ \A i \in 1..Len(new) :
              (~before.enforce_bounds \/ InBound(new[i], FreeParamBounds(before)[i]))
                  => after.params[FreeIdx(before)[i]] = new[i]
        /\ \A p \in 1..before.num_params :
              before.fixed_params[p] => after.params[p] = before.params[p]
        /\ after = [before EXCEPT !.params = after.params]
        /\ Len(after.params) = Len(before.params)
        /\ \A q \in Refs \ {r} : kernels'[q] = kernels[q]
        /\ ~before.enforce_bounds => FreeParams(after) = new

\* No step changes a fixed entry of any object.
FixedEntriesKept ==
    \A q \in Refs : \A p \in 1..Len(kernels[q].params) :
        kernels[q].fixed_params[p] => kernels'[q].params[p] = kernels[q].params[p]

\* C7: a Kernel.set_hyperparams(new) that returns writes new[i] into the
\* i-th non-fixed slot of params and changes nothing else; without
\* enforcement free_params is new afterwards; and no step of any run changes
\* a fixed entry, so each keeps its construction value.
C7_FrameEffect ==
    [][/\ FixedEntriesKept
       /\ (SetStep /\ last'.outcome = "ok" /\ delegated' = <<>>) =>
              \A r \in Refs : ~IsBinary(kernels[r]) =>
                  \A new \in RightLength(Len(FreeParams(kernels[r]))) :
                      Returns(r, new) => FrameEffect(r, new)]_vars

\* Kernel(1, 2, initial_params=[0, MaxVal], fixed_params=[False, True]) after
\* set_hyperparams([2]) returned.
C7_Witness ==
    /\ scenario = "single"
    /\ last = [op |-> "set_hyperparams", outcome |-> "ok"]
    /\ Len(kernels) = 1
    /\ kernels[1].cls = "Kernel"
    /\ ~kernels[1].enforce_bounds
    /\ kernels[1].fixed_params = <<FALSE, TRUE>>
    /\ kernels[1].params = <<2, MaxVal>>

\* ------------------------------------------------------------------- C8
\* The value the claim says is stored for v under bound (lower, upper).
Clamped(v, bound) ==
    IF v < bound[1] THEN bound[1] ELSE IF v > bound[2] THEN bound[2] ELSE v

\* C8: on a kernel enforcing its bounds, set_hyperparams with a vector of the
\* right length returns whatever the values, storing in each free slot the
\* value clamped to that slot's own bound; and whatever a step changes in a
\* free slot of an enforcing kernel lies within that slot's bound.
C8_ClampedNotRejected ==
    [][/\ SetStep =>
              \A r \in Refs : (~IsBinary(kernels[r]) /\ kernels[r].enforce_bounds) =>
                  \A new \in RightLength(Len(FreeParams(kernels[r]))) :
                      SetHyperparamsCall(r, new) =>
                          /\ last'.outcome = "ok"
                          /\ \A i \in 1..Len(new) :
                                LET bound == FreeParamBounds(kernels[r])[i]
                                    stored == FreeParams(kernels'[r])[i]
                                IN  /\ stored = Clamped(new[i], bound)
                                    /\ InBound(stored, bound)
       /\ \A q \in Refs : (~IsBinary(kernels[q]) /\ kernels[q].enforce_bounds) =>
              \A i \in 1..Len(FreeParams(kernels[q])) :
                  FreeParams(kernels'[q])[i] # FreeParams(kernels[q])[i]
                      => InBound(FreeParams(kernels'[q])[i], FreeParamBounds(kernels[q])[i])]_vars

\* Kernel(1, 2, initial_params=[0, MaxVal], param_bounds=[(1, 2), (0, 1)],
\* enforce_bounds=True) after a set_hyperparams that raised the first value
\* to its lower bound and lowered the second to its upper bound.
C8_Witness ==
    /\ scenario = "single"
    /\ last = [op |-> "set_hyperparams", outcome |-> "ok"]
    /\ Len(kernels) = 1
    /\ kernels[1].enforce_bounds
    /\ kernels[1].fixed_params = <<FALSE, FALSE>>
    /\ kernels[1].param_bounds = <<(<<1, 2>>), (<<0, 1>>)>>
    /\ "initial_params" \notin kernels[1].omitted
    /\ kernels[1].params = <<1, 1>>

\* ------------------------------------------------------------------- C9
\* C9: set_hyperparams(new) with len(new) different from the receiver's
\* number of free parameters raises ValueError and modifies no object: not
\* the receiver, and for a Sum or Product kernel neither child.
C9_WrongLengthRejected ==
    [][SetStep =>
          \A r \in Refs :
              \A new \in WrongLength(Len(FreeParams(kernels[r]))) :
                  (Len(new) # Len(FreeParams(kernels[r])) /\ SetHyperparamsCall(r, new))
                      => (last'.outcome = "ValueError" /\ kernels' = kernels)]_vars

\* A call of set_hyperparams has just failed while a nested combinator and
\* its leaves hold values set earlier.
C9_Witness ==
    /\ scenario = "nested"
    /\ Len(kernels) = 5
    /\ last = [op |-> "set_hyperparams", outcome |-> "ValueError"]
    /\ kernels[5].params = <<2, 1, 2>>
    /\ kernels[1].params = <<2>> /\ kernels[2].params = <<1>> /\ kernels[3].params = <<2>>

\* ------------------------------------------------------------------ C10
AllEqual(seq, v) == \A i \in 1..Len(seq) : seq[i] = v

\* A constructor has just returned the last object of the heap.
JustConstructed ==
    last.op \in {"Kernel", "ArbitraryKernel"} \cup BinaryClasses /\ last.outcome = "ok"

\* C10: every object that a constructor returned has, at any later moment,
\* params, fixed_params, param_bounds, hyperpriors and is_log of length
\* num_params; an argument left to its default gives no fixed parameter,
\* bounds (0, max double), is_log all true and, on return from the
\* constructor, params all 1.
C10_LengthsAndDefaults ==
    \A r \in Refs :
        LET k == kernels[r] IN
        /\ Len(k.params) = k.num_params
        /\ Len(k.fixed_params) = k.num_params
        /\ Len(k.param_bounds) = k.num_params
        /\ Len(k.hyperpriors) = k.num_params
        /\ Len(k.is_log) = k.num_params
        /\ "fixed_params" \in k.omitted => AllEqual(k.fixed_params, FALSE)
        /\ "param_bounds" \in k.omitted => AllEqual(k.param_bounds, <<0, DoubleMax>>)
        /\ "is_log" \in k.omitted => AllEqual(k.is_log, TRUE)
        /\ ("initial_params" \in k.omitted /\ JustConstructed /\ r = Len(kernels))
               => AllEqual(k.params, 1)

\* A Product of a default leaf and the two-parameter leaf, after a failed
\* set_hyperparams.
C10_Witness ==
    /\ scenario = "pair"
    /\ Len(kernels) = 3
    /\ kernels[3].cls = "ProductKernel"
    /\ kernels[3].num_params = 3
    /\ kernels[kernels[3].k1].omitted # {}
    /\ last = [op |-> "set_hyperparams", outcome |-> "ValueError"]

\* ------------------------------------------------------------------ C11
\* The num_params the constructor call works with.
CallNumParams ==
    IF call.op = "ArbitraryKernel"
    THEN IF ~IsNone(call.args.num_params) THEN call.args.num_params.value
         ELSE IF call.args.cov_func.kind = "instance"
         THEN call.args.cov_func.declared - 3
         ELSE call.args.cov_func.declared - 2
    ELSE call.args.num_params

ConstructorEnded == last.op \in {"Kernel", "ArbitraryKernel"}

\* C11: a constructor call with valid num_dim and num_params that gives
\* fixed_params and omits initial_params ends in GPArgumentError, whatever
\* the other arguments, and leaves no kernel object.
C11_FixedNeedsInitial ==
    (/\ ConstructorEnded
     /\ call.args.num_dim >= 1
     /\ CallNumParams >= 0
     /\ IsNone(call.args.initial_params)
     /\ ~IsNone(call.args.fixed_params))
        => (last.outcome = "GPArgumentError" /\ kernels = <<>>)

\* Kernel(1, 2, fixed_params=[False, True], param_bounds=[(1, 2)], is_log=[False])
\* has been refused: the argument-consistency error comes before the length
\* errors the other arguments would give.
C11_Witness ==
    /\ last = [op |-> "Kernel", outcome |-> "GPArgumentError"]
    /\ call.args.num_dim = 1
    /\ call.args.num_params = 2
    /\ call.args.fixed_params = Given(<<FALSE, TRUE>>)
    /\ call.args.param_bounds = Given(<<(<<1, 2>>)>>)
    /\ call.args.is_log = Given(<<FALSE>>)
    /\ kernels = <<>>

\* ------------------------------------------------------------------ C12
\* C12: SumKernel(o1, o2), ProductKernel(o1, o2), o1 + o2 and o1 * o2 end in
\* TypeError when an operand is no kernel (decided first), else in ValueError
\* when the operands' num_dim differ, and else return a combinator of k1 and
\* k2 with num_dim = k1.num_dim and num_params = k1.num_params +
\* k2.num_params; a refused construction leaves the heap as it was.
C12_CombinatorConstruction ==
    [][last'.op \in BinaryClasses =>
          \A cls \in BinaryClasses : \A o \in Operands :
              NewBinaryKernel(cls, o[1], o[2]) =>
                  IF o[1] = 0 \/ o[2] = 0
                  THEN last'.outcome = "TypeError" /\ kernels' = kernels
                  ELSE IF kernels[o[1]].num_dim # kernels[o[2]].num_dim
                  THEN last'.outcome = "ValueError" /\ kernels' = kernels
                  ELSE /\ last'.outcome = "ok"
                       /\ Len(kernels') = Len(kernels) + 1
                       /\ SubSeq(kernels', 1, Len(kernels)) = kernels
                       /\ LET s == kernels'[Len(kernels')]
                          IN  /\ s.cls = cls
                              /\ s.k1 = o[1] /\ s.k2 = o[2]
                              /\ s.num_dim = kernels[o[1]].num_dim
                              /\ s.num_params = kernels[o[1]].num_params
                                                  + kernels[o[2]].num_params]_vars

\* Kernel(1, 1) * Kernel(2, 1) has just been refused.
C12_Witness ==
    /\ scenario = "pair"
    /\ last = [op |-> "ProductKernel", outcome |-> "ValueError"]
    /\ Len(kernels) = 2
    /\ kernels[1].num_dim = 1
    /\ kernels[2].num_dim = 2

\* ================================================== claims: evaluation
\* The evaluation made: of the object built last, with these arguments.
Evaluated == call.op = "evaluate" /\ frame.pc = "idle"
RootKernel == kernels[Root]
Pairs == 1..Len(call.args.Xi)

\* ------------------------------------------------------------------ C13
\* What the child reached by reference r returns now for the arguments of
\* the call, from the parameters the child holds now.
ChildNow(r) == Call(kernels, r, call.args)

\* The output scale a chain-rule kernel puts into its values comes from the
\* parameters it holds itself.
OwnScale(r, v) ==
    kernels[r].cls = "ChainRuleKernel" => v.scale = kernels[r].params[1] * kernels[r].params[1]

\* C13: with hyper_deriv None a Sum kernel's evaluate returns, pair by pair,
\* k1's value plus k2's value, and a Product kernel's evaluate k1's value
\* times k2's value, the children evaluated on the same arguments with the
\* parameters they hold at the time of the call (what a set_hyperparams
\* delivered to them is what the next evaluate uses); an error of a child is
\* the error of the combinator.  Every combinator has as many free parameters
\* as its two children together.
C13_SumAndProductElementwise ==
    /\ \A r \in Refs : IsBinary(kernels[r]) =>
           Len(FreeParams(kernels[r]))
               = Len(FreeParams(kernels[kernels[r].k1])) + Len(FreeParams(kernels[kernels[r].k2]))
    /\ (Evaluated /\ IsBinary(RootKernel) /\ IsNone(call.args.hyper_deriv)) =>
           LET v1 == ChildNow(RootKernel.k1)
               v2 == ChildNow(RootKernel.k2)
           IN  IF v1.err # None THEN result.err = v1.err
               ELSE IF v2.err # None THEN result.err = v2.err
               ELSE /\ result.err = None
                    /\ Len(result.obj) = Len(call.args.Xi)
                    /\ \A m \in Pairs :
                           /\ result.obj[m].kind
                                  = (IF RootKernel.cls = "SumKernel" THEN "+" ELSE "*")
                           /\ result.obj[m].k1 = v1.obj[m]
                           /\ result.obj[m].k2 = v2.obj[m]
                           /\ OwnScale(RootKernel.k1, result.obj[m].k1)
                           /\ OwnScale(RootKernel.k2, result.obj[m].k2)

\* (k1 * k2)(Xi, Xj, ni, nj) on three pairs after (k1 * k2).set_hyperparams(
\* [1, 1, 1]): k1, built with the scale 2, is evaluated with the scale 1.
C13_Witness ==
    /\ Evaluated
    /\ Len(kernels) = 3
    /\ RootKernel.cls = "ProductKernel"
    /\ RootKernel.params = <<1, 1, 1, 2>>
    /\ kernels[1].cls = "ChainRuleKernel"
    /\ kernels[1].params = <<1, 1>>
    /\ Len(call.args.Xi) = 3
    /\ result.err = None
    /\ result.obj[3].kind = "*"
    /\ result.obj[3].k1.scale = 1


\* ------------------------------------------------------------------ C14
ChildCalled == \E e \in 1..Len(result.events) : result.events[e].ev = "call"

\* C14 (as claimed): a Sum kernel's evaluate with hyper_deriv not None ends
\* in NotImplementedError whatever the children are and whether hyper_deriv
\* is passed by keyword or by position, and neither child is called.
C14_SumRejectsHyperDeriv ==
    (Evaluated /\ RootKernel.cls = "SumKernel" /\ ~IsNone(call.args.hyper_deriv))
        => (result.err = "NotImplementedError" /\ ~ChildCalled)

\* What holds of the source: the request is rejected before any child is
\* called when hyper_deriv is passed by keyword.
C14_SumRejectsKeywordHyperDeriv ==
    (Evaluated /\ RootKernel.cls = "SumKernel" /\ ~IsNone(call.args.hyper_deriv)
     /\ call.args.how = "keyword")
        => (result.err = "NotImplementedError" /\ ~ChildCalled)


\* ------------------------------------------------------------------ C15
\* An evaluate has just been made.
EvaluateStep == call.op = None /\ call'.op = "evaluate"

\* C15: evaluate on an abstract base Kernel always ends in
\* NotImplementedError; evaluate on a chain-rule kernel or on a
\* numerically-differentiated kernel with hyper_deriv not None (by keyword or
\* by position) ends in NotImplementedError before anything else is done: no
\* unique_rows, no _compute_dk_dtau or partition generator, no worker pool.
\* No evaluate changes the parameters, or anything else, of any kernel.
C15_NotImplementedFirst ==
    [][EvaluateStep =>
          /\ kernels' = kernels
          /\ kernels[Root].cls = "Kernel"
                 => result' = [err |-> "NotImplementedError", events |-> <<>>]
          /\ (kernels[Root].cls \in {"ChainRuleKernel", "ArbitraryKernel"}
              /\ ~IsNone(call'.args.hyper_deriv))
                 => result' = [err |-> "NotImplementedError", events |-> <<>>]]_vars

\* ArbitraryKernel(cov_func, num_proc=2)(Xi, Xj, ni, nj, 0) has been refused
\* without a pool.
C15_Witness ==
    /\ Evaluated
    /\ RootKernel.cls = "ArbitraryKernel"
    /\ RootKernel.num_proc = 2
    /\ call.args.how = "position"
    /\ call.args.hyper_deriv = Given(0)
    /\ result = [err |-> "NotImplementedError", events |-> <<>>]


\* ------------------------------------------------------------------ C16
\* A direct call of _compute_dk_dtau(tau, n) has been made.
DerivativeComputed == call.op = "_compute_dk_dtau"

GeneratorCalls ==
    {e \in 1..Len(result.events) : result.events[e].ev = "generate_set_partitions"}

\* C16: _compute_dk_dtau(tau, n) with n all zero returns _compute_k(tau),
\* row by row, and does not call the set-partition generator; with n of total
\* order 1 the generator is called once and every row's value is the sum of
\* one term, for the one partition made of one block.
C16_ZeroAndFirstOrder ==
    DerivativeComputed =>
        /\ SumSeq(call.n) = 0 =>
               /\ result.err = None
               /\ result.obj = [m \in 1..Len(call.tau) |-> ComputeK(RootKernel, call.tau[m])]
               /\ GeneratorCalls = {}
        /\ SumSeq(call.n) = 1 =>
               /\ result.err = None
               /\ Cardinality(GeneratorCalls) = 1
               /\ \A m \in 1..Len(call.tau) :
                      /\ Len(result.obj[m].terms) = 1
                      /\ Len(result.obj[m].terms[1].factors) = 1
                      /\ Len(result.obj[m].terms[1].factors[1].b) = 1

\* _compute_dk_dtau(tau, [0, 0, 1]) has returned one term of one block, the
\* block holding dimension 2.
C16_Witness ==
    /\ DerivativeComputed
    /\ call.n = <<0, 0, 1>>
    /\ result.err = None
    /\ Len(result.obj[1].terms) = 1
    /\ result.obj[1].terms[1].factors[1].b = <<2>>
    /\ result.obj[1].terms[1].dk_dy.order = 1

\* _compute_dk_dtau(tau, [0, 0, 0]) has returned _compute_k(tau).
C16_WitnessZero ==
    /\ DerivativeComputed
    /\ call.n = <<0, 0, 0>>
    /\ result.obj[1].kind = "k"
    /\ result.events = <<>>


\* ------------------------------------------------------------------ C17
\* The pattern of a multi-index: dimension d listed order[d] times (d counted
\* from 0), in increasing order of d.
IsPatternOf(pattern, order) ==
    /\ DOMAIN pattern = 0..(SumSeq(order) - 1)
    /\ \A i1, i2 \in DOMAIN pattern : i1 < i2 => pattern[i1] <= pattern[i2]
    /\ \A d \in 0..(Len(order) - 1) : CountIn(pattern, d) = order[d + 1]

\* The blocks of the terms summed for row m, term by term.
BlocksOfTerm(term) == [t \in 1..Len(term.factors) |-> term.factors[t].b]

\* As many of the terms have the blocks of partition s as there are
\* partitions of the positions with these blocks.
OneTermPerPartition(terms, pattern) ==
    \A s \in AllRGS(Cardinality(DOMAIN pattern)) :
        Cardinality({p \in 1..Len(terms) : BlocksOfTerm(terms[p]) = Blocks(pattern, s)})
            = Cardinality({s2 \in AllRGS(Cardinality(DOMAIN pattern)) :
                              Blocks(pattern, s2) = Blocks(pattern, s)})

\* C17: for a multi-index n that is not all zero, _compute_dk_dtau hands the
\* partition generator the pattern listing each dimension d n[d] times in
\* increasing d, and returns for every row the sum of Bell(sum n) terms, one
\* for each set partition of the pattern's positions: the derivative of f by
\* y of order the number of blocks, times one dy/dtau factor for each block
\* of the partition.
C17_FaaDiBruno ==
    (DerivativeComputed /\ SumSeq(call.n) > 0) =>
        /\ result.err = None
        /\ Cardinality(GeneratorCalls) = 1
        /\ IsPatternOf(result.events[1].set_, call.n)
        /\ \A m \in 1..Len(call.tau) :
               LET terms == result.obj[m].terms
               IN  /\ Len(terms) = Bell(SumSeq(call.n))
                   /\ OneTermPerPartition(terms, result.events[1].set_)
                   /\ \A p \in 1..Len(terms) :
                          /\ terms[p].dk_dy
                                 = ComputeDkDy(RootKernel, ComputeY(RootKernel, call.tau[m]),
                                               Len(terms[p].factors))
                          /\ \A t \in 1..Len(terms[p].factors) :
                                 terms[p].factors[t]
                                     = ComputeDyDtau(RootKernel, call.tau[m],
                                                     terms[p].factors[t].b)

\* _compute_dk_dtau(tau, [2, 1, 0]) has enumerated the five partitions of the
\* pattern [0, 0, 1].
C17_Witness ==
    /\ DerivativeComputed
    /\ call.n = <<2, 1, 0>>
    /\ result.err = None
    /\ result.events[1].set_ = (0 :> 0 @@ 1 :> 0 @@ 2 :> 1)
    /\ Len(result.obj[1].terms) = 5
    /\ BlocksOfTerm(result.obj[1].terms[2]) = <<(<<0, 0>>), (<<1>>)>>


\* ------------------------------------------------------------------ C18
RECURSIVE MinusOneTo(_)
\* (-1)^e
MinusOneTo(e) == IF e = 0 THEN 1 ELSE -1 * MinusOneTo(e - 1)

\* The pair's coordinate difference and combined multi-index.
TauOf(m) == RowMinus(call.args.Xi[m], call.args.Xj[m])
CombinedOf(m) == RowPlus(call.args.ni[m], call.args.nj[m])

\* The value with its sign reversed.
Negated(v) == [v EXCEPT !.j_chain_factor = -1 * v.j_chain_factor]

\* The multi-indices _compute_dk_dtau was called with, in the order of the
\* calls.
GroupsComputed ==
    SelectSeq(result.events, LAMBDA e : e.ev = "_compute_dk_dtau")

\* C18: a chain-rule kernel's evaluate (hyper_deriv None, at least one
\* parameter) returns for each pair params[0]^2 times (-1)^(sum of the pair's
\* nj) times the tau-derivative for ni + nj at the pair's tau.  The pairs are
\* grouped by ni + nj: _compute_dk_dtau is called once for each distinct
\* ni + nj and every pair's entry is written by exactly one of these calls.
\* Two pairs with equal tau and equal ni + nj get equal values when their
\* sums of nj have the same parity, and values of opposite sign otherwise.
C18_ChainRuleEvaluate ==
    (Evaluated /\ RootKernel.cls = "ChainRuleKernel" /\ IsNone(call.args.hyper_deriv)) =>
        /\ result.err = None
        /\ Len(result.obj) = Len(call.args.Xi)
        /\ \A m \in Pairs :
               /\ result.obj[m].scale = RootKernel.params[1] * RootKernel.params[1]
               /\ result.obj[m].j_chain_factor = MinusOneTo(SumSeq(call.args.nj[m]))
               /\ result.obj[m].dk_dtau
                      = ComputeDkDtau(RootKernel, <<TauOf(m)>>, CombinedOf(m)).obj[1]
               /\ result.writes[m] = 1
        /\ Len(GroupsComputed) = Cardinality({CombinedOf(m) : m \in Pairs})
        /\ \A m \in Pairs : \E g \in 1..Len(GroupsComputed) : GroupsComputed[g].n = CombinedOf(m)
        /\ \A m1, m2 \in Pairs :
               (TauOf(m1) = TauOf(m2) /\ CombinedOf(m1) = CombinedOf(m2)) =>
                   IF SumSeq(call.args.nj[m1]) % 2 = SumSeq(call.args.nj[m2]) % 2
                   THEN result.obj[m1] = result.obj[m2]
                   ELSE result.obj[m1] = Negated(result.obj[m2])

\* Three pairs: the first with ni = 2, nj = 1, the third the same pair with
\* ni = 1, nj = 2, the second without derivatives.  Two groups were computed
\* and the first and the third value differ in sign only.
C18_Witness ==
    /\ Evaluated
    /\ RootKernel.cls = "ChainRuleKernel"
    /\ call.args.ni = <<(<<2>>), (<<0>>), (<<1>>)>>
    /\ call.args.nj = <<(<<1>>), (<<0>>), (<<2>>)>>
    /\ call.args.Xi = <<(<<1>>), (<<1>>), (<<1>>)>>
    /\ result.err = None
    /\ Len(GroupsComputed) = 2
    /\ result.obj[1].j_chain_factor = -1
    /\ result.obj[3].j_chain_factor = 1
    /\ result.obj[1].dk_dtau = result.obj[3].dk_dtau
    /\ Len(result.obj[1].dk_dtau.terms) = 5


\* ===================================================== claims: utils
\* ------------------------------------------------------------------ C19
RowSet(table) == {table[m] : m \in 1..Len(table)}

\* C19: unique_rows of a table of rows of small non-negative integers
\* returns rows that are pairwise different and that are, as a set, the rows
\* of the table; handing the result in again returns the same set of rows,
\* as many as before.
C19_UniqueRows ==
    call.op = "unique_rows" =>
        /\ result.err = None
        /\ \A p1, p2 \in 1..Len(result.obj) : p1 # p2 => result.obj[p1] # result.obj[p2]
        /\ RowSet(result.obj) = RowSet(call.arr)
        /\ RowSet(UniqueRows(result.obj)) = RowSet(result.obj)
        /\ Len(UniqueRows(result.obj)) = Len(result.obj)

\* unique_rows([[0, 0], [1, 0], [0, 0]]) has returned two rows.
C19_Witness ==
    /\ call.op = "unique_rows"
    /\ call.arr = <<(<<0, 0>>), (<<1, 0>>), (<<0, 0>>)>>
    /\ Len(result.obj) = 2
    /\ RowSet(result.obj) = {<<0, 0>>, <<1, 0>>}

\* ------------------------------------------------------------------ C20
RECURSIVE Factorial(_)
Factorial(m) == IF m = 0 THEN 1 ELSE m * Factorial(m - 1)

\* The binomial coefficient C(N, m), 0 <= m <= N.
Choose(N, m) == Factorial(N) \div (Factorial(m) * Factorial(N - m))

RECURSIVE BellPolynomial(_, _, _)
\* B_{n,k}(x_1, x_2, ...) by its recurrence, x_m the m-th entry of row:
\* B_{0,0} = 1, B_{n,0} = 0 for n >= 1, B_{0,k} = 0 for k >= 1,
\* B_{n,k} = sum over m = 1..n-k+1 of x_m C(n-1, m-1) B_{n-m,k-1}.
BellPolynomial(n_, k, row) ==
    IF n_ = 0 /\ k = 0 THEN 1
    ELSE IF n_ = 0 \/ k = 0 THEN 0
    ELSE LET T(m) == IF m = 0 THEN 0
                     ELSE row[m] * Choose(n_ - 1, m - 1) * BellPolynomial(n_ - m, k - 1, row)
         IN  SumTo(T, n_ - k + 1)

\* The first columns of every row.
Truncated(x, cols) == [r \in 1..Len(x) |-> SubSeq(x[r], 1, cols)]

\* C20: incomplete_bell_poly(n, k, x), n and k non-negative and every row of
\* x of at least n - k + 1 columns, returns (so it terminates) for each row
\* B_{n,k} of the row's entries as the recurrence defines it; it reads no
\* column beyond the (n - k + 1)-th, and the columns beyond it do not change
\* the result.
C20_IncompleteBellPoly ==
    (call.op = "incomplete_bell_poly" /\ Cols(call.x) >= call.n - call.k + 1) =>
        /\ result.err = None
        /\ Len(result.obj) = Len(call.x)
        /\ \A r \in 1..Len(call.x) :
               result.obj[r] = BellPolynomial(call.n, call.k, call.x[r])
        /\ result.read \subseteq 0..(call.n - call.k)
        /\ IncompleteBellPoly(call.n, call.k,
                              Truncated(call.x, Max({call.n - call.k + 1, 0}))).obj
               = result.obj

\* incomplete_bell_poly(4, 2, [[1, 2, 1, 2, 2], [2, 1, 2, 1, 1]]) has returned
\* 4 x1 x3 + 3 x2^2 for each row, two columns left unread.
C20_Witness ==
    /\ call.op = "incomplete_bell_poly"
    /\ call.n = 4
    /\ call.k = 2
    /\ call.x = <<(<<1, 2, 1, 2, 2>>), (<<2, 1, 2, 1, 1>>)>>
    /\ result.err = None
    /\ result.obj = <<16, 19>>
    /\ result.read = {0, 1, 2}


\* ------------------------------------------ claims: the pool of a call
\* The pools created by evaluate call number c.
PoolsOf(c) == {p \in 1..Len(pools) : pools[p].call = c}

\* C21 (as stated): with num_proc > 0 the pool is scoped to one evaluate
\* call: a running call works with the one pool it created itself, still
\* open, and whenever no call is running, each having returned or raised,
\* every pool created so far has been torn down; with num_proc = 0 no pool
\* is ever created.
C21_PoolScopedToCall ==
    /\ kernels[Root].num_proc = 0 => pools = <<>>
    /\ \A p \in 1..Len(pools) : PoolsOf(pools[p].call) = {p}
    /\ (frame.pc # "idle" /\ kernels[Root].num_proc > 0) =>
           /\ PoolsOf(call.number) = {frame.pool}
           /\ pools[frame.pool].state = "open"
           /\ \A t \in 1..Len(frame.tasks) : frame.tasks[t].pool = frame.pool
    /\ frame.pc = "idle" => \A p \in 1..Len(pools) : pools[p].state = "closed"

\* What holds of C21: everything but the teardown of the pool of a call
\* that raised after line 646.
C21_ScopedUnlessRaised ==
    /\ kernels[Root].num_proc = 0 => pools = <<>>
    /\ \A p \in 1..Len(pools) : PoolsOf(pools[p].call) = {p}
    /\ (frame.pc # "idle" /\ kernels[Root].num_proc > 0) =>
           /\ PoolsOf(call.number) = {frame.pool}
           /\ pools[frame.pool].state = "open"
           /\ \A t \in 1..Len(frame.tasks) : frame.tasks[t].pool = frame.pool
    /\ (frame.pc = "idle" /\ last.op = "evaluate" /\ last.outcome = "ok") =>
           \A p \in PoolsOf(call.number) : pools[p].state = "closed"

\* A call with a pool that raised after the pool was created.
C21_RaisedWithPool ==
    /\ frame.pc = "idle"
    /\ last.op = "evaluate"
    /\ last.outcome = "TypeError"
    /\ PoolsOf(call.number) # {}


\* The value the kernel in its present state has for row m of the arguments:
\* cov_func itself, or its derivative of the orders of that row.
OwnValue(k, args, m) ==
    IF AllZero(args.ni[m] \o args.nj[m]) THEN CovFunc(k, args.Xi[m], args.Xj[m])
    ELSE Diff(k, args.Xi[m] \o args.Xj[m], args.ni[m] \o args.nj[m])

\* A call of evaluate has returned an array and nothing was called since.
PoolCallReturned == frame.pc = "idle" /\ last.op = "evaluate" /\ last.outcome = "ok"

\* The tasks of pool.map are one per row of the state, each on a copy of
\* the kernel as it is, and a task that has a value has the value of its
\* own row.
TasksOwnRows ==
    frame.pc = "map" =>
        LET idxs == RowsEqualTo(frame.n_cat, Head(frame.states))
        IN  /\ Len(frame.tasks) = Len(idxs)
            /\ Len(idxs) > 1
            /\ \A t \in 1..Len(frame.tasks) :
                   /\ frame.tasks[t].obj = kernels[call.self]
                   /\ frame.tasks[t].out.kind = "diff" =>
                          frame.tasks[t].out
                              = OwnValue(kernels[call.self], call.args, idxs[t])

\* What the same kernel with num_proc = 0 gives on the arguments of the call.
Serial == ArbitraryCall([kernels[call.self] EXCEPT !.num_proc = 0], call.args)

\* C22 (as stated): whatever the order in which the tasks of pool.map are
\* run and finish, every task works on a copy of the kernel as it was when
\* evaluate was called and yields the value of its own row; on the same
\* inputs the call with num_proc > 0 returns the array that the call with
\* num_proc = 0 returns, each row holding its own value; and no step taken
\* while tasks are out changes a kernel object.
C22_PoolEqualsSerial ==
    /\ [](/\ TasksOwnRows
          /\ (frame.pc = "idle" /\ last.op = "evaluate" /\ Serial.err = None) =>
                 /\ last.outcome = "ok"
                 /\ result.obj = Serial.obj
                 /\ \A m \in 1..Len(call.args.Xi) :
                        result.obj[m] = OwnValue(kernels[call.self], call.args, m))
    /\ [][frame.pc = "map" => kernels' = kernels]_vars

\* The call with a pool has raised PicklingError out of pool.map, on
\* arguments on which the same kernel with num_proc = 0 returns an array.
C22_PoolRaisedSerialReturns ==
    /\ frame.pc = "idle"
    /\ last.op = "evaluate"
    /\ last.outcome = "PicklingError"
    /\ kernels[call.self].num_proc > 0
    /\ Serial.err = None

\* What holds of C22: the tasks yield the values of their own rows in every
\* order of running, a call that returns an array returns the one the same
\* kernel returns with num_proc = 0, each row holding its own value, and no
\* step taken while tasks are out changes a kernel object.
C22_ResultsByIndex ==
    /\ [](/\ frame.pc = "map" =>
                 LET idxs == RowsEqualTo(frame.n_cat, Head(frame.states))
                 IN  /\ Len(frame.tasks) = Len(idxs)
                     /\ Len(idxs) > 1
                     /\ \A t \in 1..Len(frame.tasks) :
                            /\ frame.tasks[t].obj = kernels[call.self]
                            /\ frame.tasks[t].out.kind = "diff" =>
                                   frame.tasks[t].out
                                       = OwnValue(kernels[call.self], call.args, idxs[t])
          /\ PoolCallReturned =>
                 /\ \A m \in 1..Len(call.args.Xi) :
                        result.obj[m] = OwnValue(kernels[call.self], call.args, m)
                 /\ result.obj = ArbitraryCall([kernels[call.self] EXCEPT !.num_proc = 0],
                                               call.args).obj)
    /\ [][frame.pc = "map" => kernels' = kernels]_vars

\* The second call returned with a pool, after three tasks of which the
\* third finished first and whose rows are not all the same pair.
C22_Witness ==
    /\ PoolCallReturned
    /\ call.number = 2
    /\ kernels[call.self].num_proc > 0
    /\ \E i \in 1..Len(result.events) :
           /\ result.events[i].ev = "pool.map"
           /\ result.events[i].finished = <<3, 1, 2>>
           /\ call.args.Xi[1] # call.args.Xi[3]


\* ------------------------------------- claims: the generator's arrays
\* C23: in generate_set_partition_strings for n >= 2, whenever the current
\* string a is about to be visited, b[i] = 1 + max(a[0..i-1]) for every i in
\* 1..n-1 and a[i] <= b[i] for every i in 0..n-1; and from initialization
\* on, in every state of the run, a[0] is 0 and b[0] is 1: no step modifies
\* them.
C23_BoundsTrackPrefixMaximum ==
    (n >= 2 /\ pc # "call") =>
        /\ a[0] = 0
        /\ b[0] = 1
        /\ pc = "visit" =>
               /\ \A i \in 1..(n - 1) : b[i] = 1 + Max({a[k] : k \in 0..(i - 1)})
               /\ \A i \in 0..(n - 1) : a[i] <= b[i]

\* A visit after backtracking steps that raised the bound of the last
\* position twice: a = 0,1,2,0 and b = 1,1,2,3.
C23_Witness ==
    /\ n = 4
    /\ pc = "visit"
    /\ a = [i \in 0..3 |-> IF i = 3 THEN 0 ELSE i]
    /\ b = [i \in 0..3 |-> IF i = 0 THEN 1 ELSE i]
    /\ j = 2


\* The step taken from a visited string: step 3 (line 236) or steps 4-6 with
\* j > 0 (lines 229-233).
StepLast == pc = "increase_last" /\ pc' = "visit"
StepBack == pc = "increase_j" /\ pc' = "visit"

\* What both readings of C24 share: the backtracking step increments a[j],
\* sets a[j+1..n-1] to 0 and b[j+1..n-2] to the new b[n-1], and leaves the
\* entries before j alone; the other step only increments a[n-1].
StepsAsDescribed ==
    /\ StepBack =>
           /\ a'[j] = a[j] + 1
           /\ \A i \in (j + 1)..(n - 1) : a'[i] = 0
           /\ \A i \in (j + 1)..(n - 2) : b'[i] = b'[n - 1]
           /\ \A i \in 0..(j - 1) : a'[i] = a[i]
           /\ \A i \in 0..j : b'[i] = b[i]
    /\ StepLast =>
           /\ a[n - 1] # b[n - 1]
           /\ a'[n - 1] = a[n - 1] + 1
           /\ b' = b
           /\ \A i \in 0..(n - 2) : a'[i] = a[i]

\* C24 (as stated): in the backtracking step b[n-1] becomes b[j] + 1 if a[j]
\* was equal to b[j] before it was incremented, and b[j] otherwise; the rest
\* of both steps is as in StepsAsDescribed.
C24_CarryIfEqualBefore ==
    [][/\ StepsAsDescribed
       /\ StepBack => b'[n - 1] = b[j] + (IF a[j] = b[j] THEN 1 ELSE 0)]_vars

\* C24 (amended): in the backtracking step at the chosen index j the
\* generator increments a[j], sets b[n-1] to b[j] + 1 if the incremented
\* a[j] equals b[j] and to b[j] otherwise, then sets a[j+1..n-1] to 0 and
\* b[j+1..n-2] to the new b[n-1]; in the other case (a[n-1] != b[n-1]) it
\* only increments a[n-1] and leaves b and a[0..n-2] unchanged.
C24_CarryIfEqualAfter ==
    [][/\ StepsAsDescribed
       /\ StepBack => b'[n - 1] = b[j] + (IF a'[j] = b[j] THEN 1 ELSE 0)]_vars

\* A backtracking step with carry has just been taken in the middle of a
\* string of four: a[1] went from 0 to 1 = b[1], b[2] and b[3] became 2 and
\* a[2], a[3] zero.
C24_Witness ==
    /\ n = 4
    /\ pc = "visit"
    /\ a = [i \in 0..3 |-> IF i = 1 THEN 1 ELSE 0]
    /\ b = [i \in 0..3 |-> IF i > 1 THEN 2 ELSE 1]
    /\ j = 1


\* ------------------------------------ claims: the end of the generator
\* The string 0,1,...,n-1: every index in a block of its own.
Singletons == [i \in 0..(n - 1) |-> i]

\* Step 4 has just chosen j' among the indices below the last: the
\* rightmost one where a and b differ.
RightmostChosen ==
    (pc = "find_j" /\ pc' = "increase_j") =>
        /\ a[n - 1] = b[n - 1]
        /\ j' \in 0..(n - 2)
        /\ a[j'] # b[j']
        /\ \A i \in (j' + 1)..(n - 2) : a[i] = b[i]

\* Some index below the last has a[i] # b[i].
SomeIndexDiffers == \E i \in 0..(n - 2) : a[i] # b[i]

\* The run ends in this step, or goes on to visit the next string.
Terminates == pc \in {"find_j", "increase_j"} /\ pc' = "returned"
Continues == pc = "increase_j" /\ pc' = "visit"

\* C25 (as stated): no step ends in an indexing error; when a[n-1] = b[n-1]
\* the rightmost j < n-1 with a[j] # b[j] is taken; the run terminates
\* exactly when no such j exists and otherwise continues from that j; and
\* the last string visited is 0,1,...,n-1.
C25_TerminatesWhenNoIndexDiffers ==
    [][/\ pc' # "IndexError"
       /\ RightmostChosen
       /\ Terminates => ~SomeIndexDiffers
       /\ (pc = "increase_j" /\ SomeIndexDiffers) => Continues
       /\ (pc' = "returned" /\ n >= 1) => strings'[Len(strings')] = Singletons]_vars

\* C25 (amended): generate_set_partition_strings terminates for every
\* n >= 0 without an indexing error: whenever a[n-1] = b[n-1] an index
\* j < n-1 with a[j] # b[j] exists and the rightmost one is taken; the run
\* terminates exactly when that j is 0 and otherwise continues from that j
\* (a[j] incremented); and the last string visited, for n >= 1, is
\* 0,1,...,n-1.
C25_TerminatesWhenJIsZero ==
    /\ <>Returned
    /\ [](pc = "find_j" => SomeIndexDiffers)
    /\ [][/\ pc' # "IndexError"
          /\ RightmostChosen
          /\ Terminates => (pc = "increase_j" /\ j = 0)
          /\ (pc = "increase_j" /\ j # 0) => (Continues /\ a'[j] = a[j] + 1)
          /\ (pc' = "returned" /\ n >= 1) => strings'[Len(strings')] = Singletons]_vars

\* The run over four elements has ended at j = 0 after visiting 0,1,2,3
\* as the last of its fifteen strings.
C25_Witness ==
    /\ n = 4
    /\ pc = "returned"
    /\ Len(strings) = 15
    /\ strings[15] = Singletons
    /\ a = Singletons
    /\ j = 0

=============================================================================
